---- MODULE Spec2Model ----
(***************************************************************************)
(* The SAML authentication provider (SAMLAuthenticationProvider) as a      *)
(* state machine.  Every public method (authenticate, login, logout) is an *)
(* asynchronous flow: it runs synchronously up to the next awaited call of *)
(* a collaborator (getUser, tokens.refresh, tokens.invalidate, the         *)
(* shield.saml* operations of the backing store), suspends there, and      *)
(* resumes with the value or the error the collaborator answered.  One     *)
(* action models one such run-to-suspension segment.  The collaborators    *)
(* are the environment: what they answer is drawn from small sets.         *)
(***************************************************************************)
EXTENDS Integers, Sequences, FiniteSets, TLC

VARIABLES
  pc,       \* per flow: "idle", the await point it is suspended at, or "done"
  op,       \* per flow: the public method in progress or last completed
  request,  \* per flow: the KibanaRequest argument
  state,    \* per flow: the ProviderState argument (Null when not supplied)
  attempt,  \* per flow: the ProviderLoginAttempt argument of login
  locals,   \* per flow: the local variables that live across an await
  result,   \* per flow: the value the public method returned
  trace,    \* per flow: private methods entered and collaborator calls made
  realm,    \* the provider's configuration: samlOptions.realm, if any
  session,  \* the Session State Store: the state persisted for the browser
  usedRefreshTokens,  \* the Token Service: refresh tokens exchanged or expired
  sessionUser,        \* the backing store: the user the browser's credentials
                      \* belong to
  lineage,  \* history of the stored session: the handshake it stems from
  response  \* per flow: what the authentication handler answered the request

\* The collaborators that keep state between calls, and what is kept about
\* the provider's callers.
env == <<session, usedRefreshTokens, sessionUser, lineage, response>>

vars == <<pc, op, request, state, attempt, locals, result, trace, realm,
          session, usedRefreshTokens, sessionUser, lineage, response>>

(***************************************************************************)
(* Bounds of the model.                                                    *)
(***************************************************************************)
\* Token pairs the Token Service / backing store can mint (besides pair 0,
\* which only supplied states hold).
NumTokenPairs == 2
\* Correlation ids samlPrepare can return (besides id 0 of supplied states).
NumRequestIds == 2

(***************************************************************************)
(* Values.                                                                 *)
(***************************************************************************)
\* JavaScript undefined, for string-valued fields.
Undef == "undefined"
\* JavaScript null / undefined, for object-valued fields.
Null == [null |-> TRUE]

\* `!v` for a string-valued optional: undefined and '' are falsy.
Falsy(v) == v = Undef \/ v = ""

\* The flows.  Requests are served concurrently; each is one flow.
Procs == {"r1", "r2"}

AccessToken(i) == "access" \o ToString(i)
RefreshToken(i) == "refresh" \o ToString(i)
TokenPair(i) == [accessToken |-> AccessToken(i), refreshToken |-> RefreshToken(i)]
RequestId(i) == "id" \o ToString(i)

\* ProviderState: Partial<TokenPair> plus requestId? and nextURL?.
ProviderState(a, r, id, next) ==
  [accessToken |-> a, refreshToken |-> r, requestId |-> id, nextURL |-> next]

\* An object literal {accessToken, refreshToken} / a TokenPair used as state.
TokenState(a, r) == ProviderState(a, r, Undef, Undef)

\* An object literal {requestId, nextURL} used as state.
HandshakeState(id, next) == ProviderState(Undef, Undef, id, next)

\* AuthenticatedUser: username and authentication_realm.name.
User(name, realmName) ==
  [username |-> name, authentication_realm |-> [name |-> realmName]]
Users == {User("alice", "saml1"), User("bob", "saml1"), User("alice", "saml2")}

\* Errors: a status code and a message.
Error(code, message) == [statusCode |-> code, message |-> message]
Err401 == Error(401, "token expired")
Err503 == Error(503, "service unavailable")
\* What a failing collaborator throws.
CollaboratorErrors == {Err401, Err503}
\* Boom.badRequest(message)
BoomBadRequest(message) == Error(400, message)
\* new Error(message)
NewError(message) == Error(0, message)

\* Tokens.isAccessTokenExpiredError(err)
isAccessTokenExpiredError(err) == err.statusCode = 401

(***************************************************************************)
(* AuthenticationResult and DeauthenticationResult.                        *)
(***************************************************************************)
AuthenticationResult(status, user, authHeaders, st, url, error) ==
  [status |-> status, user |-> user, authHeaders |-> authHeaders,
   state |-> st, redirectURL |-> url, error |-> error]

NotHandled == AuthenticationResult("notHandled", Null, Null, Null, Undef, Null)
Succeeded(user, authHeaders, st) ==
  AuthenticationResult("succeeded", user, authHeaders, st, Undef, Null)
RedirectTo(url, st) ==
  AuthenticationResult("redirected", Null, Null, st, url, Null)
Failed(error) ==
  AuthenticationResult("failed", Null, Null, Null, Undef, error)

\* AuthenticationResult.shouldUpdateState()
shouldUpdateState(r) == r.state # Null

DeauthenticationResult(status, url, error) ==
  [status |-> status, redirectURL |-> url, error |-> error]
DeauthNotHandled == DeauthenticationResult("notHandled", Undef, Null)
DeauthRedirectTo(url) == DeauthenticationResult("redirected", url, Null)
DeauthFailed(error) == DeauthenticationResult("failed", Undef, error)

(***************************************************************************)
(* Strings the code takes apart are sequences of characters.               *)
(***************************************************************************)
\* String.prototype.toLowerCase
toLowerCase(s) ==
  LET lower(c) ==
        CASE c = "B" -> "b" [] c = "E" -> "e" [] c = "A" -> "a"
          [] c = "R" -> "r" [] c = "S" -> "s" [] c = "I" -> "i"
          [] c = "C" -> "c" [] OTHER -> c
  IN  [i \in 1..Len(s) |-> lower(s[i])]

\* authorization.split(/\s+/)[0]: the characters before the first whitespace.
RECURSIVE SplitFirst(_)
SplitFirst(s) ==
  IF s = <<>> \/ Head(s) = " " THEN <<>>
  ELSE <<Head(s)>> \o SplitFirst(Tail(s))

\* The Authorization header values requests carry: as a string, as a
\* non-string (a repeated header is an array) or not at all.
StringHeader(chars) == [type |-> "string", chars |-> chars]
NoHeader == [type |-> "undefined", chars |-> <<>>]
Authorizations ==
  {NoHeader, [type |-> "object", chars |-> <<>>], StringHeader(<<>>),
   StringHeader(<<"B", "e", "a", "r", "e", "r", " ", "t">>),
   StringHeader(<<"B", "E", "A", "R", "E", "R", " ", "t">>),
   StringHeader(<<"B", "a", "s", "i", "c", " ", "t">>),
   StringHeader(<<" ", "B", "e", "a", "r", "e", "r", " ", "t">>)}

(***************************************************************************)
(* Requests, supplied states and what the collaborators answer.            *)
(***************************************************************************)
\* KibanaRequest: the Authorization header, the URL, the parsed query, the
\* base path the request is served under and whether its client can follow
\* a redirect.
Request(authorization, basePath, path, search, samlRequest, redirectable) ==
  [headers |-> [authorization |-> authorization],
   basePath |-> basePath,
   url |-> [path |-> path, search |-> search],
   query |-> [SAMLRequest |-> samlRequest],
   canRedirect |-> redirectable]

Paths == {"/app/kibana", "/app/canvas"}
BasePaths == {"", "/kbn"}

\* canRedirectRequest(request)
canRedirectRequest(req) == req.canRedirect

\* this.options.basePath.get(request)
basePathGet(req) == req.basePath

\* this.options.getServerBaseURL()
getServerBaseURL == "https://kibana:5601"

\* The states a caller can hand in: none, or any combination of the four
\* optional fields ('' is a present but empty requestId).
InputStates ==
  {Null} \cup
  {ProviderState(a, r, id, next) :
     a \in {Undef, AccessToken(0)}, r \in {Undef, RefreshToken(0)},
     id \in {Undef, "", RequestId(0)}, next \in {Undef, "/kbn/app/timelion"}}

\* A settled promise: resolved with a value or rejected with an error.
Resolved(v) == [ok |-> TRUE, value |-> v, error |-> Null]
Rejected(e) == [ok |-> FALSE, value |-> Null, error |-> e]
RejectedOutcomes == {Rejected(e) : e \in CollaboratorErrors}

\* this.getUser(request, authHeaders?)
getUserOutcomes == {Resolved(u) : u \in Users} \cup RejectedOutcomes

\* this.options.tokens.refresh(refreshToken): a new pair, null when both
\* tokens are expired, or an error.
refreshOutcomes ==
  {Resolved(TokenPair(i)) : i \in 1..NumTokenPairs} \cup {Resolved(Null)}
    \cup RejectedOutcomes

\* callAsInternalUser('shield.samlPrepare', ...): {id, redirect}
IdPLoginURL == "https://idp/sso?SAMLRequest=login"
samlPrepareOutcomes ==
  {Resolved([id |-> RequestId(i), redirect |-> IdPLoginURL]) :
     i \in 1..NumRequestIds} \cup RejectedOutcomes

\* callAsInternalUser('shield.samlAuthenticate', ...): {access_token,
\* refresh_token}; a response without tokens "should never happen".
samlAuthenticateOutcomes ==
  {Resolved([access_token |-> AccessToken(i), refresh_token |-> RefreshToken(i)]) :
     i \in 1..NumTokenPairs}
    \cup {Resolved([access_token |-> Undef, refresh_token |-> Undef])}
    \cup RejectedOutcomes

\* this.options.tokens.invalidate({accessToken, refreshToken})
invalidateOutcomes == {Resolved(Null)} \cup RejectedOutcomes

\* callAsInternalUser('shield.samlLogout' | 'shield.samlInvalidate', ...):
\* {redirect}, null when the identity provider has no single logout.
IdPLogoutURL == "https://idp/slo?SAMLResponse=logout"
singleLogoutOutcomes ==
  {Resolved([redirect |-> url]) : url \in {Undef, IdPLogoutURL}}
    \cup RejectedOutcomes

\* Trace entries: a private method entered, a collaborator called with its
\* argument, a collaborator's answer, a private method's return value.
Enter(fn) == [ev |-> "enter", fn |-> fn, arg |-> Null]
Call(fn, arg) == [ev |-> "call", fn |-> fn, arg |-> arg]
Answer(fn, out) == [ev |-> "answer", fn |-> fn, arg |-> out]
Returned(fn, v) == [ev |-> "return", fn |-> fn, arg |-> v]

\* What the synchronous start of a private method comes to: it returns a
\* value at once, or it suspends at the collaborator call it has just made.
Ret(fn, v) ==
  [returns |-> TRUE, value |-> v, trace |-> <<Enter(fn), Returned(fn, v)>>]
Await(fn, call) ==
  [returns |-> FALSE, value |-> Null, trace |-> <<Enter(fn), call>>]

\* The trace once an awaited call has settled and the private method that
\* awaited it has returned.
Settled(tr, call, out, fn, v) ==
  tr \o <<Answer(call, out), Returned(fn, v)>>

(***************************************************************************)
(* The private methods: the synchronous start (_begin) and the part after  *)
(* the awaited call has settled (_end).                                    *)
(***************************************************************************)
Bearer == <<"b", "e", "a", "r", "e", "r">>

\* { authorization: `Bearer ${accessToken}` }
AuthHeaders(accessToken) == [authorization |-> "Bearer " \o accessToken]

\* Faulty variant: an unsupported scheme is not flagged, so the chain goes on.
authenticateViaHeader_begin_unflagged(req) ==
  LET authorization == req.headers.authorization
  IN  IF authorization.type # "string" \/ authorization.chars = <<>>
      THEN Ret("authenticateViaHeader",
               [authenticationResult |-> NotHandled,
                headerNotRecognized |-> FALSE])
      ELSE IF toLowerCase(SplitFirst(authorization.chars)) # Bearer
      THEN Ret("authenticateViaHeader",
               [authenticationResult |-> NotHandled,
                headerNotRecognized |-> FALSE])
      ELSE Await("authenticateViaHeader", Call("getUser", Null))

\* Faulty variant: the scheme is compared without lower-casing it.
authenticateViaHeader_begin_caseSensitive(req) ==
  LET authorization == req.headers.authorization
  IN  IF authorization.type # "string" \/ authorization.chars = <<>>
      THEN Ret("authenticateViaHeader",
               [authenticationResult |-> NotHandled,
                headerNotRecognized |-> FALSE])
      ELSE IF SplitFirst(authorization.chars) # <<"B", "e", "a", "r", "e", "r">>
      THEN Ret("authenticateViaHeader",
               [authenticationResult |-> NotHandled,
                headerNotRecognized |-> TRUE])
      ELSE Await("authenticateViaHeader", Call("getUser", Null))

\* authenticateViaHeader up to `await this.getUser(request)`
authenticateViaHeader_begin(req) ==
  LET authorization == req.headers.authorization
  IN  IF authorization.type # "string" \/ authorization.chars = <<>>
      THEN Ret("authenticateViaHeader",
               [authenticationResult |-> NotHandled,
                headerNotRecognized |-> FALSE])
      ELSE IF toLowerCase(SplitFirst(authorization.chars)) # Bearer
      THEN Ret("authenticateViaHeader",
               [authenticationResult |-> NotHandled,
                headerNotRecognized |-> TRUE])
      ELSE Await("authenticateViaHeader", Call("getUser", Null))

\* Faulty variant: a successful lookup is not returned, so the chain goes on
\* to the session state.
authenticateViaHeader_end_fallsThrough(out) ==
  IF out.ok
  THEN [authenticationResult |-> NotHandled, headerNotRecognized |-> FALSE]
  ELSE [authenticationResult |-> Failed(out.error),
        headerNotRecognized |-> FALSE]

\* authenticateViaHeader after getUser settled
authenticateViaHeader_end(out) ==
  IF out.ok
  THEN [authenticationResult |-> Succeeded(out.value, Null, Null),
        headerNotRecognized |-> FALSE]
  ELSE [authenticationResult |-> Failed(out.error),
        headerNotRecognized |-> FALSE]

\* authenticateViaState up to `await this.getUser(request, authHeaders)`
authenticateViaState_begin(st) ==
  IF Falsy(st.accessToken)
  THEN Ret("authenticateViaState", NotHandled)
  ELSE Await("authenticateViaState",
             Call("getUser", AuthHeaders(st.accessToken)))


\* Faulty variant: the user is resolved but the auth headers are not handed
\* on.
authenticateViaState_end_noHeaders(st, out) ==
  IF out.ok
  THEN Succeeded(out.value, Null, Null)
  ELSE Failed(out.error)

\* authenticateViaState after getUser settled
authenticateViaState_end(st, out) ==
  IF out.ok
  THEN Succeeded(out.value, AuthHeaders(st.accessToken), Null)
  ELSE Failed(out.error)


\* Faulty variant: an expired access token without a refresh token fails the
\* request.
authenticateViaRefreshToken_begin_failsWithoutToken(st) ==
  IF Falsy(st.refreshToken)
  THEN Ret("authenticateViaRefreshToken",
           Failed(BoomBadRequest("The access token is expired.")))
  ELSE Await("authenticateViaRefreshToken",
             Call("tokens.refresh", st.refreshToken))

\* authenticateViaRefreshToken up to `await this.options.tokens.refresh(...)`
authenticateViaRefreshToken_begin(st) ==
  IF Falsy(st.refreshToken)
  THEN Ret("authenticateViaRefreshToken", NotHandled)
  ELSE Await("authenticateViaRefreshToken",
             Call("tokens.refresh", st.refreshToken))

\* getACS(request)
getACS(req) == getServerBaseURL \o basePathGet(req) \o "/api/security/v1/saml"

\* this.realm ? { realm: this.realm } : { acs: this.getACS(request) }
RealmOrACS(rlm, req) ==
  IF ~Falsy(rlm) THEN [realm |-> rlm, acs |-> Undef]
  ELSE [realm |-> Undef, acs |-> getACS(req)]

\* Faulty variant: the handshake starts whether or not the client can follow
\* a redirect.
authenticateViaHandshake_begin_unchecked(rlm, req) ==
  Await("authenticateViaHandshake",
        Call("shield.samlPrepare", RealmOrACS(rlm, req)))

\* authenticateViaHandshake up to `await callAsInternalUser('shield.samlPrepare')`
authenticateViaHandshake_begin(rlm, req) ==
  IF ~canRedirectRequest(req)
  THEN Ret("authenticateViaHandshake", NotHandled)
  ELSE Await("authenticateViaHandshake",
             Call("shield.samlPrepare", RealmOrACS(rlm, req)))

\* Faulty variant: the next URL is the request path without the base path.
authenticateViaHandshake_end_noBasePath(req, out) ==
  IF out.ok
  THEN RedirectTo(out.value.redirect,
                  HandshakeState(out.value.id, req.url.path))
  ELSE Failed(out.error)

\* authenticateViaHandshake after samlPrepare settled
authenticateViaHandshake_end(req, out) ==
  IF out.ok
  THEN RedirectTo(out.value.redirect,
                  HandshakeState(out.value.id, basePathGet(req) \o req.url.path))
  ELSE Failed(out.error)

\* The error of authenticateViaRefreshToken when both tokens are expired and
\* the request cannot be redirected.
BothTokensExpired == BoomBadRequest("Both access and refresh tokens are expired.")

\* Faulty variant: both tokens expired always fails with 400.
authenticateViaRefreshToken_bothExpired_alwaysFails(rlm, req) ==
  [returns |-> TRUE, value |-> Failed(BothTokensExpired), trace |-> <<>>]

\* Faulty variant: expired tokens are reported as not handled, whether or not
\* the request can be redirected.
authenticateViaRefreshToken_bothExpired_notHandled(rlm, req) ==
  [returns |-> TRUE, value |-> NotHandled, trace |-> <<>>]

\* authenticateViaRefreshToken when tokens.refresh answered null: start the
\* handshake if the request can be redirected, else fail with 400.
authenticateViaRefreshToken_bothExpired(rlm, req) ==
  IF canRedirectRequest(req)
  THEN authenticateViaHandshake_begin(rlm, req)
  ELSE [returns |-> TRUE, value |-> Failed(BothTokensExpired), trace |-> <<>>]

\* Faulty variant: the user is looked up with the new token but the session
\* is not updated.
authenticateViaRefreshToken_end_stateless(refreshedTokenPair, out) ==
  IF out.ok
  THEN Succeeded(out.value, AuthHeaders(refreshedTokenPair.accessToken), Null)
  ELSE Failed(out.error)


\* Faulty variant: the refreshed pair is handed to the session store even
\* when the lookup with the new access token failed.
authenticateViaRefreshToken_end_keepsPair(refreshedTokenPair, out) ==
  IF out.ok
  THEN Succeeded(out.value, AuthHeaders(refreshedTokenPair.accessToken),
                 TokenState(refreshedTokenPair.accessToken,
                            refreshedTokenPair.refreshToken))
  ELSE AuthenticationResult("failed", Null, Null,
                            TokenState(refreshedTokenPair.accessToken,
                                       refreshedTokenPair.refreshToken),
                            Undef, out.error)

\* authenticateViaRefreshToken after getUser settled for the refreshed pair
authenticateViaRefreshToken_end(refreshedTokenPair, out) ==
  IF out.ok
  THEN Succeeded(out.value, AuthHeaders(refreshedTokenPair.accessToken),
                 TokenState(refreshedTokenPair.accessToken,
                            refreshedTokenPair.refreshToken))
  ELSE Failed(out.error)

\* isSAMLRequestQuery(query): query && query.SAMLRequest
isSAMLRequestQuery(query) == ~Falsy(query.SAMLRequest)

\* The message of the failure for a state without request id or redirect URL.
MalformedStateMessage ==
  "SAML response state does not have corresponding request id or redirect URL."

\* const { requestId, nextURL } = state || { requestId: '', nextURL: '' }
stateRequestId(st) == IF st # Null THEN st.requestId ELSE ""
stateRedirectURL(st) == IF st # Null THEN st.nextURL ELSE ""

\* Faulty variant: the state is rejected only when it has neither field.
loginWithSAMLResponse_begin_bothMissing(samlResponse, st) ==
  IF st # Null /\ (Falsy(stateRequestId(st)) /\ Falsy(stateRedirectURL(st)))
  THEN Ret("loginWithSAMLResponse",
           Failed(BoomBadRequest(MalformedStateMessage)))
  ELSE Await("loginWithSAMLResponse",
             Call("shield.samlAuthenticate",
                  [ids |-> IF ~Falsy(stateRequestId(st))
                           THEN <<stateRequestId(st)>> ELSE <<>>,
                   content |-> samlResponse]))


\* Faulty variant: a state with neither request id nor redirect URL is taken
\* for no state at all; only a state with exactly one of them is rejected.
loginWithSAMLResponse_begin_emptyAsAbsent(samlResponse, st) ==
  IF st # Null /\ (Falsy(stateRequestId(st)) # Falsy(stateRedirectURL(st)))
  THEN Ret("loginWithSAMLResponse",
           Failed(BoomBadRequest(MalformedStateMessage)))
  ELSE Await("loginWithSAMLResponse",
             Call("shield.samlAuthenticate",
                  [ids |-> IF ~Falsy(stateRequestId(st))
                           THEN <<stateRequestId(st)>> ELSE <<>>,
                   content |-> samlResponse]))

\* loginWithSAMLResponse up to `await callAsInternalUser('shield.samlAuthenticate')`
loginWithSAMLResponse_begin(samlResponse, st) ==
  IF st # Null /\ (Falsy(stateRequestId(st)) \/ Falsy(stateRedirectURL(st)))
  THEN Ret("loginWithSAMLResponse",
           Failed(BoomBadRequest(MalformedStateMessage)))
  ELSE Await("loginWithSAMLResponse",
             Call("shield.samlAuthenticate",
                  [ids |-> IF ~Falsy(stateRequestId(st))
                           THEN <<stateRequestId(st)>> ELSE <<>>,
                   content |-> samlResponse]))

\* Faulty variant: the redirect goes to the root whatever the state says.
loginWithSAMLResponse_end_alwaysRoot(req, st, out) ==
  IF out.ok
  THEN RedirectTo(basePathGet(req) \o "/",
                  TokenState(out.value.access_token, out.value.refresh_token))
  ELSE Failed(out.error)

\* Faulty variant: the tokens are merged into the supplied state, which keeps
\* its requestId and nextURL.
loginWithSAMLResponse_end_mergesState(req, st, out) ==
  IF out.ok
  THEN RedirectTo(IF ~Falsy(stateRedirectURL(st)) THEN stateRedirectURL(st)
                  ELSE basePathGet(req) \o "/",
                  IF st # Null
                  THEN [st EXCEPT !.accessToken = out.value.access_token,
                                  !.refreshToken = out.value.refresh_token]
                  ELSE TokenState(out.value.access_token,
                                  out.value.refresh_token))
  ELSE Failed(out.error)

\* loginWithSAMLResponse after samlAuthenticate settled
loginWithSAMLResponse_end(req, st, out) ==
  IF out.ok
  THEN RedirectTo(IF ~Falsy(stateRedirectURL(st)) THEN stateRedirectURL(st)
                  ELSE basePathGet(req) \o "/",
                  TokenState(out.value.access_token, out.value.refresh_token))
  ELSE Failed(out.error)

\* The "should never happen" failures of loginWithNewSAMLResponse.
NoTokensProduced ==
  NewError("Login with SAML payload did not produce access and refresh tokens.")
NoUserRetrieved ==
  NewError("Could not retrieve user information using tokens produced for the SAML payload.")

\* Faulty variant: the users are compared by username only.
loginWithNewSAMLResponse_end_usernameOnly(req, user, payloadAuthenticationResult, newUserAuthenticationResult, out) ==
  IF ~out.ok
  THEN Failed(out.error)
  ELSE IF newUserAuthenticationResult.user.username # user.username
  THEN RedirectTo(basePathGet(req) \o "/overwritten_session",
                  payloadAuthenticationResult.state)
  ELSE payloadAuthenticationResult

\* Faulty variant: the users are compared before the old session is
\* invalidated, and a mismatch wins over a failed invalidation.
loginWithNewSAMLResponse_end_comparesFirst(req, user, payloadAuthenticationResult, newUserAuthenticationResult, out) ==
  IF \/ newUserAuthenticationResult.user.username # user.username
     \/ newUserAuthenticationResult.user.authentication_realm.name
          # user.authentication_realm.name
  THEN RedirectTo(basePathGet(req) \o "/overwritten_session",
                  payloadAuthenticationResult.state)
  ELSE IF ~out.ok
  THEN Failed(out.error)
  ELSE payloadAuthenticationResult

\* loginWithNewSAMLResponse, the comparison of the new user with the user of
\* the existing session, after the old tokens are invalidated.
loginWithNewSAMLResponse_end(req, user, payloadAuthenticationResult, newUserAuthenticationResult, out) ==
  IF ~out.ok
  THEN Failed(out.error)
  ELSE IF \/ newUserAuthenticationResult.user.username # user.username
          \/ newUserAuthenticationResult.user.authentication_realm.name
               # user.authentication_realm.name
  THEN RedirectTo(basePathGet(req) \o "/overwritten_session",
                  payloadAuthenticationResult.state)
  ELSE payloadAuthenticationResult

\* request.url.search ? request.url.search.slice(1) : ''
queryString(req) == IF req.url.search # <<>> THEN Tail(req.url.search) ELSE <<>>

\* The fixed page logout redirects to when the identity provider names none.
LoggedOutPath == "/logged_out"

\* Faulty variant: the redirect the identity provider asks for is dropped.
logout_end_ignoresRedirect(out) ==
  IF ~out.ok
  THEN DeauthFailed(out.error)
  ELSE DeauthRedirectTo(LoggedOutPath)

\* Faulty variant: the single logout is awaited outside the try block, so
\* its error leaves logout as an exception.
logout_end_uncaught(out) ==
  IF ~out.ok
  THEN DeauthenticationResult("thrown", Undef, out.error)
  ELSE IF out.value.redirect # Undef
  THEN DeauthRedirectTo(out.value.redirect)
  ELSE DeauthRedirectTo(LoggedOutPath)

\* logout after the single logout call settled
logout_end(out) ==
  IF ~out.ok
  THEN DeauthFailed(out.error)
  ELSE IF out.value.redirect # Undef
  THEN DeauthRedirectTo(out.value.redirect)
  ELSE DeauthRedirectTo(LoggedOutPath)

(***************************************************************************)
(* The flows.                                                              *)
(***************************************************************************)
\* The await points, named by the chain of calls that leads to them.
AwaitHeaderUser == "authenticate:authenticateViaHeader:getUser"
AwaitStateUser == "authenticate:authenticateViaState:getUser"
AwaitRefresh == "authenticate:authenticateViaRefreshToken:tokens.refresh"
AwaitRefreshedUser == "authenticate:authenticateViaRefreshToken:getUser"
AwaitRefreshPrepare ==
  "authenticate:authenticateViaRefreshToken:authenticateViaHandshake:samlPrepare"
AwaitPrepare == "authenticate:authenticateViaHandshake:samlPrepare"

AwaitLoginStateUser == "login:authenticateViaState:getUser"
AwaitLoginExchange == "login:loginWithSAMLResponse:samlAuthenticate"
AwaitNewExchange ==
  "login:loginWithNewSAMLResponse:loginWithSAMLResponse:samlAuthenticate"
AwaitNewUser == "login:loginWithNewSAMLResponse:authenticateViaState:getUser"
AwaitInvalidate == "login:loginWithNewSAMLResponse:tokens.invalidate"
AwaitSamlInvalidate == "logout:performIdPInitiatedSingleLogout:samlInvalidate"
AwaitSamlLogout == "logout:performUserInitiatedSingleLogout:samlLogout"

NoLocals ==
  [refreshedTokenPair |-> Null, authenticationResult |-> Null,
   payloadAuthenticationResult |-> Null, newUserAuthenticationResult |-> Null]
NoAttempt == [samlResponse |-> Undef]
NoRequest == Request(NoHeader, "", Undef, <<>>, Undef, FALSE)

\* The flow suspends at an await point.
Suspend(p, at, tr, loc) ==
  /\ pc' = [pc EXCEPT ![p] = at]
  /\ trace' = [trace EXCEPT ![p] = tr]
  /\ locals' = [locals EXCEPT ![p] = loc]
  /\ result' = [result EXCEPT ![p] = Null]

\* The public method returns.
Return(p, tr, res) ==
  /\ pc' = [pc EXCEPT ![p] = "done"]
  /\ trace' = [trace EXCEPT ![p] = tr]
  /\ locals' = [locals EXCEPT ![p] = NoLocals]
  /\ result' = [result EXCEPT ![p] = res]

\* No history: the stored session, if any, does not stem from a handshake
\* authenticate started.
NoLineage == [prepared |-> Null, exchanged |-> Null]

\* The authentication handler has not answered the request.
NoResponse == [kind |-> "none"]

\* A public method is called: its arguments are bound.
Invoke(p, name, req, st, att) ==
  /\ pc[p] = "idle"
  /\ op' = [op EXCEPT ![p] = name]
  /\ request' = [request EXCEPT ![p] = req]
  /\ state' = [state EXCEPT ![p] = st]
  /\ attempt' = [attempt EXCEPT ![p] = att]
  /\ UNCHANGED realm

\* A suspended flow resumes.
Resume(p, at) ==
  /\ pc[p] = at
  /\ UNCHANGED <<op, request, state, attempt, realm>>

Init ==
  /\ pc = [p \in Procs |-> "idle"]
  /\ op = [p \in Procs |-> "none"]
  /\ request = [p \in Procs |-> NoRequest]
  /\ state = [p \in Procs |-> Null]
  /\ attempt = [p \in Procs |-> NoAttempt]
  /\ locals = [p \in Procs |-> NoLocals]
  /\ result = [p \in Procs |-> Null]
  /\ trace = [p \in Procs |-> <<>>]
  /\ realm \in {Undef, "saml1"}
  /\ session = Null
  /\ usedRefreshTokens = {}
  /\ sessionUser = User("alice", "saml1")
  /\ lineage = NoLineage
  /\ response = [p \in Procs |-> NoResponse]

(***************************************************************************)
(* authenticate                                                            *)
(***************************************************************************)
\* authenticate, the return statement: start the handshake if nothing
\* handled the request, else return what there is.
authenticate_return(p, req, tr, authenticationResult) ==
  IF authenticationResult.status = "notHandled"
  THEN LET h == authenticateViaHandshake_begin(realm, req)
       IN  IF h.returns
           THEN Return(p, tr \o h.trace, h.value)
           ELSE Suspend(p, AwaitPrepare, tr \o h.trace, NoLocals)
  ELSE Return(p, tr, authenticationResult)

\* Faulty variant: any failure of the state-based lookup leads to a refresh.
authenticate_afterState_anyFailure(p, req, st, tr, authenticationResult) ==
  IF authenticationResult.status = "failed"
  THEN LET r == authenticateViaRefreshToken_begin(st)
       IN  IF r.returns
           THEN authenticate_return(p, req, tr \o r.trace, r.value)
           ELSE Suspend(p, AwaitRefresh, tr \o r.trace, NoLocals)
  ELSE authenticate_return(p, req, tr, authenticationResult)

\* authenticate, after authenticateViaState has returned: refresh if the
\* access token is expired.
authenticate_afterState(p, req, st, tr, authenticationResult) ==
  IF /\ authenticationResult.status = "failed"
     /\ isAccessTokenExpiredError(authenticationResult.error)
  THEN LET r == authenticateViaRefreshToken_begin(st)
       IN  IF r.returns
           THEN authenticate_return(p, req, tr \o r.trace, r.value)
           ELSE Suspend(p, AwaitRefresh, tr \o r.trace, NoLocals)
  ELSE authenticate_return(p, req, tr, authenticationResult)

\* Faulty variant: the state is tried whatever the header stage returned.
authenticate_afterHeader_alwaysState(p, req, st, tr, authenticationResult) ==
  IF st # Null
  THEN LET s == authenticateViaState_begin(st)
       IN  IF s.returns
           THEN authenticate_afterState(p, req, st, tr \o s.trace, s.value)
           ELSE Suspend(p, AwaitStateUser, tr \o s.trace, NoLocals)
  ELSE authenticate_return(p, req, tr, authenticationResult)


\* Faulty variant: a state that holds an outstanding handshake is resumed;
\* the browser is sent to the identity provider again with the correlation
\* id it already has.
authenticate_afterHeader_resumesHandshake(p, req, st, tr, authenticationResult) ==
  IF st # Null /\ authenticationResult.status = "notHandled"
  THEN IF Falsy(st.accessToken) /\ ~Falsy(st.requestId) /\ ~Falsy(st.nextURL)
       THEN Return(p, tr, RedirectTo(IdPLoginURL,
                                     HandshakeState(st.requestId, st.nextURL)))
       ELSE LET s == authenticateViaState_begin(st)
            IN  IF s.returns
                THEN authenticate_afterState(p, req, st, tr \o s.trace, s.value)
                ELSE Suspend(p, AwaitStateUser, tr \o s.trace, NoLocals)
  ELSE authenticate_return(p, req, tr, authenticationResult)

\* authenticate, after authenticateViaHeader has returned a recognized (or
\* no) header.
authenticate_afterHeader(p, req, st, tr, authenticationResult) ==
  IF st # Null /\ authenticationResult.status = "notHandled"
  THEN LET s == authenticateViaState_begin(st)
       IN  IF s.returns
           THEN authenticate_afterState(p, req, st, tr \o s.trace, s.value)
           ELSE Suspend(p, AwaitStateUser, tr \o s.trace, NoLocals)
  ELSE authenticate_return(p, req, tr, authenticationResult)

\* The requests authenticate is called with.
AuthenticateRequests ==
  {Request(a, base, path, <<>>, Undef, redirectable) :
     a \in Authorizations, base \in BasePaths, path \in Paths,
     redirectable \in BOOLEAN}

\* authenticate(request, state) is called.
authenticate_call(p, req, st) ==
  /\ Invoke(p, "authenticate", req, st, NoAttempt)
  /\ LET h == authenticateViaHeader_begin(req)
     IN  IF h.returns
         THEN IF h.value.headerNotRecognized
              THEN Return(p, h.trace, h.value.authenticationResult)
              ELSE authenticate_afterHeader(p, req, st, h.trace,
                                            h.value.authenticationResult)
         ELSE Suspend(p, AwaitHeaderUser, h.trace, NoLocals)

\* authenticate is called with any request and any state.
authenticate(p) ==
  \E req \in AuthenticateRequests, st \in InputStates :
    authenticate_call(p, req, st)

\* getUser(request) settles in authenticateViaHeader.
authenticateViaHeader_getUser(p) ==
  /\ Resume(p, AwaitHeaderUser)
  /\ \E out \in getUserOutcomes :
       LET h == authenticateViaHeader_end(out)
           tr == Settled(trace[p], "getUser", out, "authenticateViaHeader", h)
       IN  IF h.headerNotRecognized
           THEN Return(p, tr, h.authenticationResult)
           ELSE authenticate_afterHeader(p, request[p], state[p], tr,
                                         h.authenticationResult)

\* getUser(request, authHeaders) settles in authenticateViaState.
authenticateViaState_getUser(p) ==
  /\ Resume(p, AwaitStateUser)
  /\ \E out \in getUserOutcomes :
       LET v == authenticateViaState_end(state[p], out)
       IN  authenticate_afterState(p, request[p], state[p],
             Settled(trace[p], "getUser", out, "authenticateViaState", v), v)

\* tokens.refresh(refreshToken) settles in authenticateViaRefreshToken.
authenticateViaRefreshToken_refresh(p) ==
  /\ Resume(p, AwaitRefresh)
  /\ \E out \in refreshOutcomes :
       LET tr == Append(trace[p], Answer("tokens.refresh", out))
           req == request[p]
           fn == "authenticateViaRefreshToken"
       IN  IF ~out.ok
           THEN authenticate_return(p, req,
                  Append(tr, Returned(fn, Failed(out.error))),
                  Failed(out.error))
           ELSE IF out.value = Null
           THEN LET h == authenticateViaRefreshToken_bothExpired(realm, req)
                IN  IF h.returns
                    THEN authenticate_return(p, req,
                           Append(tr \o h.trace, Returned(fn, h.value)),
                           h.value)
                    ELSE Suspend(p, AwaitRefreshPrepare, tr \o h.trace,
                                 NoLocals)
           ELSE Suspend(p, AwaitRefreshedUser,
                        Append(tr, Call("getUser",
                                        AuthHeaders(out.value.accessToken))),
                        [NoLocals EXCEPT !.refreshedTokenPair = out.value])

\* getUser(request, authHeaders) settles in authenticateViaRefreshToken.
authenticateViaRefreshToken_getUser(p) ==
  /\ Resume(p, AwaitRefreshedUser)
  /\ \E out \in getUserOutcomes :
       LET v == authenticateViaRefreshToken_end(locals[p].refreshedTokenPair,
                                                out)
       IN  authenticate_return(p, request[p],
             Settled(trace[p], "getUser", out, "authenticateViaRefreshToken", v),
             v)

\* samlPrepare settles in the authenticateViaHandshake that
\* authenticateViaRefreshToken started.
authenticateViaRefreshToken_samlPrepare(p) ==
  /\ Resume(p, AwaitRefreshPrepare)
  /\ \E out \in samlPrepareOutcomes :
       LET v == authenticateViaHandshake_end(request[p], out)
       IN  authenticate_return(p, request[p],
             Append(Settled(trace[p], "shield.samlPrepare", out,
                            "authenticateViaHandshake", v),
                    Returned("authenticateViaRefreshToken", v)),
             v)


\* Faulty variant: a failed samlPrepare is tried once more.
authenticateViaHandshake_samlPrepare_retries(p) ==
  /\ Resume(p, AwaitPrepare)
  /\ \E out \in samlPrepareOutcomes :
       LET v == authenticateViaHandshake_end(request[p], out)
           first == \A i \in DOMAIN trace[p] : trace[p][i].ev # "answer"
       IN  IF ~out.ok /\ first
           THEN Suspend(p, AwaitPrepare,
                  trace[p] \o <<Answer("shield.samlPrepare", out),
                                trace[p][Len(trace[p])]>>,
                  NoLocals)
           ELSE Return(p, Settled(trace[p], "shield.samlPrepare", out,
                                  "authenticateViaHandshake", v), v)

\* samlPrepare settles in the authenticateViaHandshake that authenticate
\* started.
authenticateViaHandshake_samlPrepare(p) ==
  /\ Resume(p, AwaitPrepare)
  /\ \E out \in samlPrepareOutcomes :
       LET v == authenticateViaHandshake_end(request[p], out)
       IN  Return(p, Settled(trace[p], "shield.samlPrepare", out,
                             "authenticateViaHandshake", v), v)

(***************************************************************************)
(* login                                                                   *)
(***************************************************************************)
\* Faulty variant: the reconciliation hands the existing state to the
\* exchange, so a stale correlation id is sent again.
login_afterState_reusesState(p, req, samlResponse, st, tr, authenticationResult) ==
  IF authenticationResult.status = "notHandled"
  THEN LET l == loginWithSAMLResponse_begin(samlResponse, st)
       IN  IF l.returns
           THEN Return(p, tr \o l.trace, l.value)
           ELSE Suspend(p, AwaitLoginExchange, tr \o l.trace, NoLocals)
  ELSE IF authenticationResult.status = "succeeded"
  THEN LET l == loginWithSAMLResponse_begin(samlResponse, st)
           tr1 == Append(tr, Enter("loginWithNewSAMLResponse")) \o l.trace
       IN  IF l.returns
           THEN Return(p, Append(tr1, Returned("loginWithNewSAMLResponse",
                                               l.value)), l.value)
           ELSE Suspend(p, AwaitNewExchange, tr1,
                  [NoLocals EXCEPT !.authenticationResult = authenticationResult])
  ELSE Return(p, tr, authenticationResult)


\* Faulty variant: a failed lookup of the state's user is treated like a
\* missing session, and the assertion is exchanged.
login_afterState_failureFallsThrough(p, req, samlResponse, st, tr, authenticationResult) ==
  IF authenticationResult.status \in {"notHandled", "failed"}
  THEN LET l == loginWithSAMLResponse_begin(samlResponse, st)
       IN  IF l.returns
           THEN Return(p, tr \o l.trace, l.value)
           ELSE Suspend(p, AwaitLoginExchange, tr \o l.trace, NoLocals)
  ELSE IF authenticationResult.status = "succeeded"
  THEN LET l == loginWithSAMLResponse_begin(samlResponse, Null)
           tr1 == Append(tr, Enter("loginWithNewSAMLResponse")) \o l.trace
       IN  IF l.returns
           THEN Return(p, Append(tr1, Returned("loginWithNewSAMLResponse",
                                               l.value)), l.value)
           ELSE Suspend(p, AwaitNewExchange, tr1,
                  [NoLocals EXCEPT !.authenticationResult = authenticationResult])
  ELSE Return(p, tr, authenticationResult)

\* login, after the state-based authentication (if any) has returned.
login_afterState(p, req, samlResponse, st, tr, authenticationResult) ==
  IF authenticationResult.status = "notHandled"
  THEN LET l == loginWithSAMLResponse_begin(samlResponse, st)
       IN  IF l.returns
           THEN Return(p, tr \o l.trace, l.value)
           ELSE Suspend(p, AwaitLoginExchange, tr \o l.trace, NoLocals)
  ELSE IF authenticationResult.status = "succeeded"
  THEN LET l == loginWithSAMLResponse_begin(samlResponse, Null)
           tr1 == Append(tr, Enter("loginWithNewSAMLResponse")) \o l.trace
       IN  IF l.returns
           THEN Return(p, Append(tr1, Returned("loginWithNewSAMLResponse",
                                               l.value)), l.value)
           ELSE Suspend(p, AwaitNewExchange, tr1,
                  [NoLocals EXCEPT !.authenticationResult = authenticationResult])
  ELSE Return(p, tr, authenticationResult)

LoginRequests ==
  {Request(NoHeader, base, "/api/security/v1/saml", <<>>, Undef, TRUE) :
     base \in BasePaths}
SAMLResponses == {"", "PHNhbWxwOlJlc3BvbnNl"}

\* login(request, {samlResponse}, state) is called.
login_call(p, req, samlResponse, st) ==
  /\ Invoke(p, "login", req, st, [samlResponse |-> samlResponse])
  /\ IF st # Null
     THEN LET s == authenticateViaState_begin(st)
          IN  IF s.returns
              THEN login_afterState(p, req, samlResponse, st, s.trace, s.value)
              ELSE Suspend(p, AwaitLoginStateUser, s.trace, NoLocals)
     ELSE login_afterState(p, req, samlResponse, st, <<>>, NotHandled)

\* login is called with any assertion and any state.
login(p) ==
  \E req \in LoginRequests, samlResponse \in SAMLResponses, st \in InputStates :
    login_call(p, req, samlResponse, st)

\* getUser settles in the authenticateViaState that login started.
login_getUser(p) ==
  /\ Resume(p, AwaitLoginStateUser)
  /\ \E out \in getUserOutcomes :
       LET v == authenticateViaState_end(state[p], out)
       IN  login_afterState(p, request[p], attempt[p].samlResponse, state[p],
             Settled(trace[p], "getUser", out, "authenticateViaState", v), v)

\* samlAuthenticate settles in the loginWithSAMLResponse that login started.
loginWithSAMLResponse_samlAuthenticate(p) ==
  /\ Resume(p, AwaitLoginExchange)
  /\ \E out \in samlAuthenticateOutcomes :
       LET v == loginWithSAMLResponse_end(request[p], state[p], out)
       IN  Return(p, Settled(trace[p], "shield.samlAuthenticate", out,
                             "loginWithSAMLResponse", v), v)

\* samlAuthenticate settles in the loginWithSAMLResponse that
\* loginWithNewSAMLResponse started; the user of the new tokens is looked up.
loginWithNewSAMLResponse_samlAuthenticate(p) ==
  /\ Resume(p, AwaitNewExchange)
  /\ \E out \in samlAuthenticateOutcomes :
       LET payloadAuthenticationResult ==
             loginWithSAMLResponse_end(request[p], Null, out)
           tr == Settled(trace[p], "shield.samlAuthenticate", out,
                         "loginWithSAMLResponse", payloadAuthenticationResult)
           fn == "loginWithNewSAMLResponse"
       IN  IF payloadAuthenticationResult.status = "failed"
           THEN Return(p, Append(tr, Returned(fn, payloadAuthenticationResult)),
                       payloadAuthenticationResult)
           ELSE IF ~shouldUpdateState(payloadAuthenticationResult)
           THEN Return(p, Append(tr, Returned(fn, Failed(NoTokensProduced))),
                       Failed(NoTokensProduced))
           ELSE LET s == authenticateViaState_begin(
                           payloadAuthenticationResult.state)
                    v == IF s.value.status = "failed" THEN s.value
                         ELSE Failed(NoUserRetrieved)
                IN  IF s.returns
                    THEN Return(p, Append(tr \o s.trace, Returned(fn, v)), v)
                    ELSE Suspend(p, AwaitNewUser, tr \o s.trace,
                           [locals[p] EXCEPT !.payloadAuthenticationResult =
                                                payloadAuthenticationResult])


\* Faulty variant: the old tokens are invalidated as soon as the lookup of
\* the new user has settled, whether or not it found a user.
loginWithNewSAMLResponse_getUser_invalidatesAnyway(p) ==
  /\ Resume(p, AwaitNewUser)
  /\ \E out \in getUserOutcomes :
       LET newUserAuthenticationResult ==
             authenticateViaState_end(
               locals[p].payloadAuthenticationResult.state, out)
           tr == Settled(trace[p], "getUser", out, "authenticateViaState",
                         newUserAuthenticationResult)
           existingState ==
             IF locals[p].authenticationResult.state # Null
             THEN locals[p].authenticationResult.state ELSE state[p]
       IN  Suspend(p, AwaitInvalidate,
             Append(tr, Call("tokens.invalidate",
               [accessToken |-> existingState.accessToken,
                refreshToken |-> existingState.refreshToken])),
             [locals[p] EXCEPT !.newUserAuthenticationResult =
                                  newUserAuthenticationResult])

\* getUser settles for the new tokens; the old tokens are invalidated.
loginWithNewSAMLResponse_getUser(p) ==
  /\ Resume(p, AwaitNewUser)
  /\ \E out \in getUserOutcomes :
       LET newUserAuthenticationResult ==
             authenticateViaState_end(
               locals[p].payloadAuthenticationResult.state, out)
           tr == Settled(trace[p], "getUser", out, "authenticateViaState",
                         newUserAuthenticationResult)
           existingState ==
             IF locals[p].authenticationResult.state # Null
             THEN locals[p].authenticationResult.state ELSE state[p]
           fn == "loginWithNewSAMLResponse"
       IN  IF newUserAuthenticationResult.status = "failed"
           THEN Return(p, Append(tr, Returned(fn, newUserAuthenticationResult)),
                       newUserAuthenticationResult)
           ELSE IF newUserAuthenticationResult.user = Null
           THEN Return(p, Append(tr, Returned(fn, Failed(NoUserRetrieved))),
                       Failed(NoUserRetrieved))
           ELSE Suspend(p, AwaitInvalidate,
                  Append(tr, Call("tokens.invalidate",
                    [accessToken |-> existingState.accessToken,
                     refreshToken |-> existingState.refreshToken])),
                  [locals[p] EXCEPT !.newUserAuthenticationResult =
                                       newUserAuthenticationResult])

\* tokens.invalidate settles; the users are compared.
loginWithNewSAMLResponse_invalidate(p) ==
  /\ Resume(p, AwaitInvalidate)
  /\ \E out \in invalidateOutcomes :
       LET v == loginWithNewSAMLResponse_end(
                  request[p], locals[p].authenticationResult.user,
                  locals[p].payloadAuthenticationResult,
                  locals[p].newUserAuthenticationResult, out)
       IN  Return(p, Settled(trace[p], "tokens.invalidate", out,
                             "loginWithNewSAMLResponse", v), v)

(***************************************************************************)
(* logout                                                                  *)
(***************************************************************************)
LogoutRequests ==
  {Request(NoHeader, "/kbn", "/api/security/v1/logout", search[1], search[2], TRUE) :
     search \in {<<<<>>, Undef>>, <<<<"?", "a", "=", "1">>, Undef>>,
                 <<<<"?", "S", "A", "M", "L", "R", "e", "q", "u", "e", "s", "t", "=">>, "">>,
                 <<<<"?", "S", "A", "M", "L", "R", "e", "q", "u", "e", "s", "t", "=", "x">>,
                   "x">>}}

\* Faulty variant: only a missing state counts as nothing to invalidate.
logout_call_anyState(p, req, st) ==
  /\ Invoke(p, "logout", req, st, NoAttempt)
  /\ IF st = Null /\ ~isSAMLRequestQuery(req.query)
     THEN Return(p, <<>>, DeauthNotHandled)
     ELSE IF isSAMLRequestQuery(req.query)
     THEN Suspend(p, AwaitSamlInvalidate,
            <<Enter("performIdPInitiatedSingleLogout"),
              Call("shield.samlInvalidate",
                   [queryString |-> queryString(req),
                    realmOrACS |-> RealmOrACS(realm, req)])>>,
            NoLocals)
     ELSE Suspend(p, AwaitSamlLogout,
            <<Enter("performUserInitiatedSingleLogout"),
              Call("shield.samlLogout",
                   [token |-> st.accessToken,
                    refresh_token |-> st.refreshToken])>>,
            NoLocals)


\* Faulty variant: a token pair in the state takes precedence over the
\* SAMLRequest query parameter.
logout_call_tokenFirst(p, req, st) ==
  /\ Invoke(p, "logout", req, st, NoAttempt)
  /\ IF (st = Null \/ Falsy(st.accessToken)) /\ ~isSAMLRequestQuery(req.query)
     THEN Return(p, <<>>, DeauthNotHandled)
     ELSE IF st = Null \/ Falsy(st.accessToken)
     THEN Suspend(p, AwaitSamlInvalidate,
            <<Enter("performIdPInitiatedSingleLogout"),
              Call("shield.samlInvalidate",
                   [queryString |-> queryString(req),
                    realmOrACS |-> RealmOrACS(realm, req)])>>,
            NoLocals)
     ELSE Suspend(p, AwaitSamlLogout,
            <<Enter("performUserInitiatedSingleLogout"),
              Call("shield.samlLogout",
                   [token |-> st.accessToken,
                    refresh_token |-> st.refreshToken])>>,
            NoLocals)

\* logout(request, state) is called.
logout_call(p, req, st) ==
  /\ Invoke(p, "logout", req, st, NoAttempt)
  /\ IF (st = Null \/ Falsy(st.accessToken)) /\ ~isSAMLRequestQuery(req.query)
     THEN Return(p, <<>>, DeauthNotHandled)
     ELSE IF isSAMLRequestQuery(req.query)
     THEN Suspend(p, AwaitSamlInvalidate,
            <<Enter("performIdPInitiatedSingleLogout"),
              Call("shield.samlInvalidate",
                   [queryString |-> queryString(req),
                    realmOrACS |-> RealmOrACS(realm, req)])>>,
            NoLocals)
     ELSE Suspend(p, AwaitSamlLogout,
            <<Enter("performUserInitiatedSingleLogout"),
              Call("shield.samlLogout",
                   [token |-> st.accessToken,
                    refresh_token |-> st.refreshToken])>>,
            NoLocals)

\* logout is called with any request and any state.
logout(p) ==
  \E req \in LogoutRequests, st \in InputStates : logout_call(p, req, st)

\* samlInvalidate settles in performIdPInitiatedSingleLogout.
logout_samlInvalidate(p) ==
  /\ Resume(p, AwaitSamlInvalidate)
  /\ \E out \in singleLogoutOutcomes :
       Return(p, Append(trace[p], Answer("shield.samlInvalidate", out)),
              logout_end(out))

\* samlLogout settles in performUserInitiatedSingleLogout.
logout_samlLogout(p) ==
  /\ Resume(p, AwaitSamlLogout)
  /\ \E out \in singleLogoutOutcomes :
       Return(p, Append(trace[p], Answer("shield.samlLogout", out)),
              logout_end(out))

(***************************************************************************)
(* The caller takes the result: the request is served and the flow is free *)
(* for the next one.                                                       *)
(***************************************************************************)
complete(p) ==
  /\ pc[p] = "done"
  /\ pc' = [pc EXCEPT ![p] = "idle"]
  /\ op' = [op EXCEPT ![p] = "none"]
  /\ request' = [request EXCEPT ![p] = NoRequest]
  /\ state' = [state EXCEPT ![p] = Null]
  /\ attempt' = [attempt EXCEPT ![p] = NoAttempt]
  /\ locals' = [locals EXCEPT ![p] = NoLocals]
  /\ result' = [result EXCEPT ![p] = Null]
  /\ trace' = [trace EXCEPT ![p] = <<>>]
  /\ UNCHANGED realm

(***************************************************************************)
(* The specification: one flow at a time, called with any state, the       *)
(* collaborators answering anything they can answer.                       *)
(***************************************************************************)
Next ==
  /\ UNCHANGED env
  /\ \E p \in {"r1"} :
    \/ authenticate(p)
    \/ authenticateViaHeader_getUser(p)
    \/ authenticateViaState_getUser(p)
    \/ authenticateViaRefreshToken_refresh(p)
    \/ authenticateViaRefreshToken_getUser(p)
    \/ authenticateViaRefreshToken_samlPrepare(p)
    \/ authenticateViaHandshake_samlPrepare(p)
    \/ login(p)
    \/ login_getUser(p)
    \/ loginWithSAMLResponse_samlAuthenticate(p)
    \/ loginWithNewSAMLResponse_samlAuthenticate(p)
    \/ loginWithNewSAMLResponse_getUser(p)
    \/ loginWithNewSAMLResponse_invalidate(p)
    \/ logout(p)
    \/ logout_samlInvalidate(p)
    \/ logout_samlLogout(p)
    \/ complete(p)

Spec == Init /\ [][Next]_vars

(***************************************************************************)
(* The session specification: one browser, one request at a time.  The     *)
(* caller hands login and authenticate either no state or the state the    *)
(* Session State Store holds, and persists the state update of the result  *)
(* before the next request is served.                                      *)
(***************************************************************************)
\* The awaited call of an authenticate flow settles.
authenticate_resume(p) ==
  \/ authenticateViaHeader_getUser(p)
  \/ authenticateViaState_getUser(p)
  \/ authenticateViaRefreshToken_refresh(p)
  \/ authenticateViaRefreshToken_getUser(p)
  \/ authenticateViaRefreshToken_samlPrepare(p)
  \/ authenticateViaHandshake_samlPrepare(p)

\* authenticate is called with the stored state, or with none.
session_authenticate(p) ==
  /\ \E req \in AuthenticateRequests, st \in {Null, session} :
       authenticate_call(p, req, st)
  /\ UNCHANGED env

\* login is called with the stored state, or with none.
session_login(p) ==
  /\ \E req \in LoginRequests, samlResponse \in SAMLResponses,
        st \in {Null, session} :
       login_call(p, req, samlResponse, st)
  /\ UNCHANGED env

\* Where the state the store is about to hold stems from: the samlPrepare
\* answer and the request of the authenticate that started a handshake, and
\* then the tokens of the login that completed that handshake; any other
\* state update starts a new history.
Lineage(p) ==
  LET answer(fn) ==
        trace[p][CHOOSE i \in DOMAIN trace[p] :
                   trace[p][i].ev = "answer" /\ trace[p][i].fn = fn].arg.value
  IN  IF ~shouldUpdateState(result[p]) THEN lineage
      ELSE IF op[p] = "authenticate" /\ result[p].status = "redirected"
      THEN [prepared |-> [id |-> answer("shield.samlPrepare").id,
                          basePath |-> request[p].basePath,
                          path |-> request[p].url.path],
            exchanged |-> Null]
      ELSE IF /\ op[p] = "login" /\ state[p] # Null /\ state[p] = session
              /\ lineage.prepared # Null /\ lineage.exchanged = Null
      THEN [lineage EXCEPT !.exchanged = answer("shield.samlAuthenticate")]
      ELSE NoLineage

\* The caller takes the result and persists its state update, if it has one.
session_persist(p) ==
  /\ complete(p)
  /\ session' = IF shouldUpdateState(result[p]) THEN result[p].state
                ELSE session
  /\ lineage' = Lineage(p)
  /\ UNCHANGED <<usedRefreshTokens, sessionUser, response>>

SessionNext ==
  \E p \in {"r1"} :
    \/ session_authenticate(p)
    \/ authenticate_resume(p) /\ UNCHANGED env
    \/ session_login(p)
    \/ login_getUser(p) /\ UNCHANGED env
    \/ loginWithSAMLResponse_samlAuthenticate(p) /\ UNCHANGED env
    \/ loginWithNewSAMLResponse_samlAuthenticate(p) /\ UNCHANGED env
    \/ loginWithNewSAMLResponse_getUser(p) /\ UNCHANGED env
    \/ loginWithNewSAMLResponse_invalidate(p) /\ UNCHANGED env
    \/ session_persist(p)

SessionSpec == Init /\ [][SessionNext]_vars

(***************************************************************************)
(* The concurrent specification: two requests of one browser are served at *)
(* the same time.  Both carry the stored state, whose token pair (pair 0)  *)
(* has an expired access token; their flows interleave at every await.     *)
(* The Token Service rotates refresh tokens: a refresh token can be        *)
(* exchanged once, and refresh answers null for one that has been          *)
(* exchanged already (or has expired).  The backing store resolves every   *)
(* valid credential of the browser to the same user.                       *)
(***************************************************************************)
\* The session both requests carry.
StoredSession == TokenState(AccessToken(0), RefreshToken(0))

\* tokens.refresh(refreshToken), given the refresh tokens that are used up:
\* null for one of those, else a new pair, or null if it is found expired;
\* the call can fail in transport either way.
TokensRefresh(used, refreshToken) ==
  IF refreshToken \in used
  THEN {Resolved(Null), Rejected(Err503)}
  ELSE {Resolved(TokenPair(i)) : i \in 1..NumTokenPairs}
         \cup {Resolved(Null), Rejected(Err503)}

\* getUser(request, authHeaders?), user being the one the credentials belong
\* to: the stored access token is expired, any other credential is valid.
UserLookup(user, authHeaders) ==
  IF authHeaders = AuthHeaders(StoredSession.accessToken)
  THEN {Rejected(Err401), Rejected(Err503)}
  ELSE {Resolved(user), Rejected(Err503)}

\* The call flow p is suspended at, and the answer it resumes with in this
\* step.
PendingCall(p) == trace[p][Len(trace[p])]
ResumedWith(p) == trace'[p][Len(trace[p]) + 1].arg

ConcurrentRequests ==
  {Request(a, "/kbn", path, <<>>, Undef, redirectable) :
     a \in {NoHeader,
            StringHeader(<<"B", "e", "a", "r", "e", "r", " ", "t">>),
            StringHeader(<<"B", "E", "A", "R", "E", "R", " ", "t">>),
            StringHeader(<<"B", "a", "s", "i", "c", " ", "t">>)},
     path \in Paths, redirectable \in BOOLEAN}

\* authenticate is called with the stored session, or with none (a request
\* that carries no cookie).
concurrent_authenticate(p) ==
  /\ \E req \in ConcurrentRequests, st \in {Null, session} :
       authenticate_call(p, req, st)
  /\ UNCHANGED env

\* The backing store answers a user lookup.
concurrent_getUser(p) ==
  /\ \/ authenticateViaHeader_getUser(p)
     \/ authenticateViaState_getUser(p)
     \/ authenticateViaRefreshToken_getUser(p)
  /\ ResumedWith(p) \in UserLookup(sessionUser, PendingCall(p).arg)
  /\ UNCHANGED env

\* The Token Service answers a refresh: a refresh token that yields a new
\* pair is used up, and one found expired stays expired.
concurrent_refresh(p) ==
  /\ authenticateViaRefreshToken_refresh(p)
  /\ ResumedWith(p) \in TokensRefresh(usedRefreshTokens, PendingCall(p).arg)
  /\ usedRefreshTokens' =
       IF ResumedWith(p).ok
       THEN usedRefreshTokens \cup {PendingCall(p).arg}
       ELSE usedRefreshTokens
  /\ UNCHANGED <<session, sessionUser, lineage, response>>

\* The backing store answers samlPrepare.
concurrent_samlPrepare(p) ==
  /\ \/ authenticateViaRefreshToken_samlPrepare(p)
     \/ authenticateViaHandshake_samlPrepare(p)
  /\ UNCHANGED env

ConcurrentInit ==
  /\ pc = [p \in Procs |-> "idle"]
  /\ op = [p \in Procs |-> "none"]
  /\ request = [p \in Procs |-> NoRequest]
  /\ state = [p \in Procs |-> Null]
  /\ attempt = [p \in Procs |-> NoAttempt]
  /\ locals = [p \in Procs |-> NoLocals]
  /\ result = [p \in Procs |-> Null]
  /\ trace = [p \in Procs |-> <<>>]
  /\ realm \in {Undef, "saml1"}
  /\ session = StoredSession
  /\ usedRefreshTokens = {}
  /\ sessionUser \in Users
  /\ lineage = NoLineage
  /\ response = [p \in Procs |-> NoResponse]

ConcurrentNext ==
  \E p \in Procs :
    \/ concurrent_authenticate(p)
    \/ concurrent_getUser(p)
    \/ concurrent_refresh(p)
    \/ concurrent_samlPrepare(p)

ConcurrentSpec == ConcurrentInit /\ [][ConcurrentNext]_vars


(***************************************************************************)
(* The request-lifecycle authentication handler: the hook that is          *)
(* registered with the HTTP service, asks the authenticator to             *)
(* authenticate every incoming request and turns the result into the       *)
(* answer to the request.  The authenticator hands the request to the      *)
(* provider configured: the SAML provider, or another one, whose results   *)
(* can carry response headers; the authenticator itself can throw.         *)
(***************************************************************************)
\* The answers of the handler: t.authenticated({state, requestHeaders,
\* responseHeaders}), response.redirected({headers: {location}}),
\* response.customError({body, headers}), response.unauthorized(),
\* response.internalError().
Response(kind, user, requestHeaders, responseHeaders, location, body) ==
  [kind |-> kind, state |-> user, requestHeaders |-> requestHeaders,
   headers |-> responseHeaders, location |-> location, body |-> body]

\* authenticationResult.authResponseHeaders
authResponseHeaders(r) ==
  IF "authResponseHeaders" \in DOMAIN r THEN r.authResponseHeaders ELSE Null

\* Faulty variant: a failure is answered as unauthorized and its error is
\* lost.
authHandler_dropsError(outcome) ==
  IF outcome.status = "thrown"
  THEN Response("internalError", Null, Null, Null, Undef, Null)
  ELSE IF outcome.status = "succeeded"
  THEN Response("authenticated", outcome.user, outcome.authHeaders,
                authResponseHeaders(outcome), Undef, Null)
  ELSE IF outcome.status = "redirected"
  THEN Response("redirected", Null, Null, Null, outcome.redirectURL, Null)
  ELSE Response("unauthorized", Null, Null, Null, Undef, Null)

\* The handler, once authenticate has settled.
authHandler(outcome) ==
  IF outcome.status = "thrown"
  THEN Response("internalError", Null, Null, Null, Undef, Null)
  ELSE IF outcome.status = "succeeded"
  THEN Response("authenticated", outcome.user, outcome.authHeaders,
                authResponseHeaders(outcome), Undef, Null)
  ELSE IF outcome.status = "redirected"
  THEN Response("redirected", Null, Null, Null, outcome.redirectURL, Null)
  ELSE IF outcome.status = "failed"
  THEN Response("customError", Null, Null, authResponseHeaders(outcome),
                Undef, outcome.error)
  ELSE Response("unauthorized", Null, Null, Null, Undef, Null)

\* The security feature is disabled: the request goes on without credentials
\* and authenticate is not called.
authHandler_securityDisabled(p) ==
  /\ pc[p] = "idle" /\ response[p] = NoResponse
  /\ response' = [response EXCEPT ![p] =
         Response("authenticated", Null, Null, Null, Undef, Null)]
  /\ UNCHANGED <<pc, op, request, state, attempt, locals, result, trace, realm,
                 session, usedRefreshTokens, sessionUser, lineage>>

\* The handler calls authenticate, which the SAML provider serves.
authHandler_authenticate(p) ==
  /\ response[p] = NoResponse
  /\ \E req \in AuthenticateRequests, st \in InputStates :
       authenticate_call(p, req, st)
  /\ UNCHANGED env

\* The handler calls authenticate, which does not come to a result of the
\* SAML provider: it throws, or a provider that negotiates fails or succeeds
\* with a WWW-Authenticate response header.
authHandler_authenticateOther(p) ==
  /\ response[p] = NoResponse
  /\ \E req \in AuthenticateRequests,
        r \in {Failed(Err401)}
                \cup {Succeeded(u, AuthHeaders(AccessToken(1)), Null) :
                        u \in Users},
        throws \in BOOLEAN, e \in CollaboratorErrors :
       /\ Invoke(p, "authenticate", req, Null, NoAttempt)
       /\ Return(p, <<>>,
             IF throws THEN [status |-> "thrown", error |-> e]
             ELSE [status |-> r.status, user |-> r.user,
                   authHeaders |-> r.authHeaders, state |-> r.state,
                   redirectURL |-> r.redirectURL, error |-> r.error,
                   authResponseHeaders |-> [WWWAuthenticate |-> "Negotiate"]])
  /\ UNCHANGED env

\* authenticate has settled: the handler answers the request.
authHandler_respond(p) ==
  /\ pc[p] = "done" /\ response[p] = NoResponse
  /\ response' = [response EXCEPT ![p] = authHandler(result[p])]
  /\ UNCHANGED <<pc, op, request, state, attempt, locals, result, trace, realm,
                 session, usedRefreshTokens, sessionUser, lineage>>

HandlerNext ==
  \E p \in {"r1"} :
    \/ authHandler_securityDisabled(p)
    \/ authHandler_authenticate(p)
    \/ authenticate_resume(p) /\ UNCHANGED env
    \/ authHandler_authenticateOther(p)
    \/ authHandler_respond(p)

HandlerSpec == Init /\ [][HandlerNext]_vars

(***************************************************************************)
(* Reading the trace of a flow.                                            *)
(***************************************************************************)
\* The positions of the trace of flow p holding an event of kind ev of fn.
Events(p, ev, fn) ==
  {i \in DOMAIN trace[p] : trace[p][i].ev = ev /\ trace[p][i].fn = fn}
Entered(p, fn) == Events(p, "enter", fn) # {}
Called(p, fn) == Events(p, "call", fn) # {}

Authenticating(p) == op[p] = "authenticate"
LoggingIn(p) == op[p] = "login"
Done(p) == pc[p] = "done"

\* The rank of a strategy in the chain of authenticate.
StageRank(fn) ==
  CASE fn = "authenticateViaHeader" -> 1
    [] fn = "authenticateViaState" -> 2
    [] fn = "authenticateViaRefreshToken" -> 3
    [] fn = "authenticateViaHandshake" -> 4

\* The AuthenticationResult a "return" event carries.
StageResult(e) ==
  IF e.fn = "authenticateViaHeader" THEN e.arg.authenticationResult ELSE e.arg

\* A stage passes the request on: it returns notHandled, or it is the state
\* stage failing on an expired access token, which the refresh stage takes
\* over.
PassedOn(e) ==
  \/ StageResult(e).status = "notHandled"
  \/ /\ e.fn = "authenticateViaState"
     /\ StageResult(e).status = "failed"
     /\ StageResult(e).error.statusCode = 401

\* The positions at which a stage returned a result that settles the request.
Handled(p) ==
  {i \in DOMAIN trace[p] : trace[p][i].ev = "return" /\ ~PassedOn(trace[p][i])}

\* The scheme word of a string-valued, non-empty Authorization header.
HasScheme(req) ==
  req.headers.authorization.type = "string"
    /\ req.headers.authorization.chars # <<>>
SchemeWord(req) == toLowerCase(SplitFirst(req.headers.authorization.chars))

(***************************************************************************)
(* C1: in every call of authenticate the strategies run in the order       *)
(* header, state, refresh, handshake; the state stage runs only after the  *)
(* header stage returned notHandled for a recognized (or absent) header    *)
(* and a state was supplied; the refresh stage runs only after the state   *)
(* stage failed; samlPrepare is called only when every earlier stage       *)
(* passed the request on or tokens.refresh answered null; once a stage has *)
(* settled the request nothing more is entered or called, and the result   *)
(* returned is that stage's (notHandled if no stage settled it).           *)
(***************************************************************************)
C1_FixedOrder ==
  \A p \in Procs : Authenticating(p) =>
    LET tr == trace[p]
    IN  /\ tr # <<>> => tr[1].ev = "enter" /\ tr[1].fn = "authenticateViaHeader"
        /\ \A i, j \in DOMAIN tr :
             (i < j /\ tr[i].ev = "enter" /\ tr[j].ev = "enter")
               => StageRank(tr[i].fn) < StageRank(tr[j].fn)
        /\ \A j \in Events(p, "enter", "authenticateViaState") :
             /\ state[p] # Null
             /\ \E i \in Events(p, "return", "authenticateViaHeader") :
                  /\ i < j
                  /\ tr[i].arg.authenticationResult.status = "notHandled"
                  /\ ~tr[i].arg.headerNotRecognized
        /\ \A j \in Events(p, "enter", "authenticateViaRefreshToken") :
             \E i \in Events(p, "return", "authenticateViaState") :
               i < j /\ tr[i].arg.status = "failed"
        /\ \A j \in Events(p, "call", "shield.samlPrepare") :
             \/ \E i \in Events(p, "answer", "tokens.refresh") :
                  i < j /\ tr[i].arg.ok /\ tr[i].arg.value = Null
             \/ \A i \in 1..(j - 1) : tr[i].ev = "return" => PassedOn(tr[i])
        /\ \A i \in Handled(p) : \A j \in DOMAIN tr :
             j > i => tr[j].ev = "return" /\ StageResult(tr[j]) = StageResult(tr[i])
        /\ Done(p) =>
             IF Handled(p) = {} THEN result[p] = NotHandled
             ELSE result[p] =
                    StageResult(tr[CHOOSE i \in Handled(p) :
                                     \A j \in Handled(p) : i <= j])

\* All four strategies ran in one call, which ended in a redirect.
C1_Witness ==
  \E p \in Procs :
    /\ Authenticating(p) /\ Done(p)
    /\ Entered(p, "authenticateViaHeader") /\ Entered(p, "authenticateViaState")
    /\ Entered(p, "authenticateViaRefreshToken")
    /\ Entered(p, "authenticateViaHandshake")
    /\ result[p].status = "redirected"

(***************************************************************************)
(* C2: for a request whose Authorization header carries a scheme word      *)
(* other than bearer (compared case-insensitively), authenticate returns   *)
(* notHandled at once: no collaborator is called (no user lookup, no token *)
(* refresh, no samlPrepare) and no other strategy is entered, whatever the *)
(* state and whether or not the request can be redirected.                 *)
(***************************************************************************)
C2_UnsupportedSchemeShortCircuits ==
  \A p \in Procs :
    (Authenticating(p) /\ HasScheme(request[p])
       /\ SchemeWord(request[p]) # <<"b", "e", "a", "r", "e", "r">>)
    => /\ Done(p)
       /\ result[p] = NotHandled
       /\ \A i \in DOMAIN trace[p] :
            /\ trace[p][i].ev \in {"enter", "return"}
            /\ trace[p][i].fn = "authenticateViaHeader"

\* A Basic header on a redirectable request with a token pair in the state.
C2_Witness ==
  \E p \in Procs :
    /\ Authenticating(p) /\ Done(p) /\ HasScheme(request[p])
    /\ SchemeWord(request[p]) = <<"b", "a", "s", "i", "c">>
    /\ request[p].canRedirect
    /\ state[p] # Null /\ ~Falsy(state[p].accessToken)
    /\ ~Falsy(state[p].refreshToken)

(***************************************************************************)
(* C3: for a request whose Authorization scheme is bearer in any letter    *)
(* case, authenticate looks the user up with the request's own header and  *)
(* the header stage ends the chain: the result is succeeded(user) when the *)
(* lookup succeeds and failed(error) when it fails; the state is not used, *)
(* no refresh is attempted and no handshake is started.                    *)
(***************************************************************************)
C3_BearerEndsChain ==
  \A p \in Procs :
    (Authenticating(p) /\ HasScheme(request[p])
       /\ SchemeWord(request[p]) = <<"b", "e", "a", "r", "e", "r">>)
    => LET tr == trace[p]
       IN  /\ pc[p] \in {AwaitHeaderUser, "done"}
           /\ Len(tr) >= 2
           /\ tr[1].ev = "enter" /\ tr[1].fn = "authenticateViaHeader"
           /\ tr[2].ev = "call" /\ tr[2].fn = "getUser" /\ tr[2].arg = Null
           /\ \A i \in DOMAIN tr :
                /\ tr[i].ev = "enter" => i = 1
                /\ tr[i].ev = "call" => i = 2
           /\ Done(p) =>
                /\ Len(tr) = 4
                /\ tr[3].ev = "answer" /\ tr[3].fn = "getUser"
                /\ result[p] = IF tr[3].arg.ok
                               THEN Succeeded(tr[3].arg.value, Null, Null)
                               ELSE Failed(tr[3].arg.error)

\* An upper-case BEARER header authenticated while the state holds a pair.
C3_Witness ==
  \E p \in Procs :
    /\ Authenticating(p) /\ Done(p) /\ HasScheme(request[p])
    /\ SplitFirst(request[p].headers.authorization.chars)
         = <<"B", "E", "A", "R", "E", "R">>
    /\ state[p] # Null /\ ~Falsy(state[p].accessToken)
    /\ ~Falsy(state[p].refreshToken)
    /\ result[p].status = "succeeded"

(***************************************************************************)
(* C4: when the state-based lookup of authenticate fails with an           *)
(* expired-access-token error the refresh strategy is entered (and         *)
(* tokens.refresh is called with the state's refresh token if there is     *)
(* one); when it fails with any other error the refresh strategy is not    *)
(* entered, tokens.refresh is not called, and authenticate returns that    *)
(* failure as it is.                                                       *)
(***************************************************************************)
C4_RefreshOnlyOnExpiry ==
  \A p \in Procs : Authenticating(p) =>
    \A i \in Events(p, "return", "authenticateViaState") :
      LET r == trace[p][i].arg
      IN  r.status = "failed" =>
            IF r.error.statusCode = 401
            THEN /\ Entered(p, "authenticateViaRefreshToken")
                 /\ ~Falsy(state[p].refreshToken) =>
                      \E j \in Events(p, "call", "tokens.refresh") :
                        j > i /\ trace[p][j].arg = state[p].refreshToken
            ELSE /\ ~Entered(p, "authenticateViaRefreshToken")
                 /\ ~Called(p, "tokens.refresh")
                 /\ Done(p)
                 /\ result[p] = r

\* The lookup failed with 503 while the state held a refresh token.
C4_Witness ==
  \E p \in Procs :
    /\ Authenticating(p) /\ Done(p)
    /\ state[p] # Null /\ ~Falsy(state[p].refreshToken)
    /\ \E i \in Events(p, "return", "authenticateViaState") :
         /\ trace[p][i].arg.status = "failed"
         /\ trace[p][i].arg.error.statusCode = 503
    /\ result[p].status = "failed" /\ result[p].error.statusCode = 503

\* tokens.refresh has answered null in flow p: both tokens are expired.
RefreshAnsweredNull(p) ==
  \E i \in Events(p, "answer", "tokens.refresh") :
    trace[p][i].arg.ok /\ trace[p][i].arg.value = Null

\* Result r is the 400 failure for expired tokens.
IsBadRequest(r) == r.status = "failed" /\ r.error.statusCode = 400

(***************************************************************************)
(* C5, as claimed: if tokens.refresh returns null and the request cannot   *)
(* redirect, authenticate returns failed(bad-request); if it can redirect, *)
(* the result is a handshake redirect, never a failure.                    *)
(***************************************************************************)
C5_AsClaimed ==
  \A p \in Procs :
    (Authenticating(p) /\ Done(p) /\ RefreshAnsweredNull(p))
    => IF ~request[p].canRedirect
       THEN IsBadRequest(result[p])
       ELSE result[p].status = "redirected"

(***************************************************************************)
(* C5, amended: if tokens.refresh returns null and the request cannot      *)
(* redirect, authenticate returns failed(bad-request) without calling      *)
(* samlPrepare; if it can redirect, authenticate calls samlPrepare and     *)
(* returns what the handshake comes to: the redirect to the identity       *)
(* provider when samlPrepare succeeds, failed with samlPrepare's error     *)
(* when it fails, and never the bad-request failure.                       *)
(***************************************************************************)
C5_BothTokensExpired ==
  \A p \in Procs :
    (Authenticating(p) /\ RefreshAnsweredNull(p))
    => IF ~request[p].canRedirect
       THEN /\ Done(p)
            /\ IsBadRequest(result[p])
            /\ result[p].error.message
                 = "Both access and refresh tokens are expired."
            /\ ~Called(p, "shield.samlPrepare")
       ELSE /\ Called(p, "shield.samlPrepare")
            /\ pc[p] \in {AwaitRefreshPrepare, "done"}
            /\ Done(p) =>
                 \E i \in Events(p, "answer", "shield.samlPrepare") :
                   LET out == trace[p][i].arg
                   IN  IF out.ok
                       THEN /\ result[p].status = "redirected"
                            /\ result[p].redirectURL = out.value.redirect
                       ELSE result[p] = Failed(out.error)

\* Both tokens expired on a redirectable request, and the handshake started.
C5_Witness ==
  \E p \in Procs :
    /\ Authenticating(p) /\ Done(p) /\ RefreshAnsweredNull(p)
    /\ request[p].canRedirect
    /\ result[p].status = "redirected"

(***************************************************************************)
(* C6: when the stored access token is expired, tokens.refresh returns a   *)
(* new pair and the user lookup with the new access token succeeds,        *)
(* authenticate returns succeeded with that user, with auth headers built  *)
(* from the new access token, and with a state update that is exactly the  *)
(* new token pair.                                                         *)
(***************************************************************************)
C6_RefreshedSession ==
  \A p \in Procs : Authenticating(p) =>
    \A i \in Events(p, "answer", "tokens.refresh") :
      LET pair == trace[p][i].arg.value
      IN  (trace[p][i].arg.ok /\ pair # Null) =>
            /\ Len(trace[p]) > i
            /\ trace[p][i + 1].ev = "call" /\ trace[p][i + 1].fn = "getUser"
            /\ trace[p][i + 1].arg
                 = [authorization |-> "Bearer " \o pair.accessToken]
            /\ \A j \in Events(p, "answer", "getUser") :
                 (j > i /\ trace[p][j].arg.ok) =>
                   /\ Done(p)
                   /\ result[p] =
                        Succeeded(trace[p][j].arg.value,
                                  [authorization |-> "Bearer " \o pair.accessToken],
                                  ProviderState(pair.accessToken,
                                                pair.refreshToken, Undef, Undef))

\* A session refreshed to a pair other than the stored one.
C6_Witness ==
  \E p \in Procs :
    /\ Authenticating(p) /\ Done(p)
    /\ result[p].status = "succeeded"
    /\ result[p].state # Null
    /\ result[p].state.accessToken # state[p].accessToken
    /\ result[p].state.refreshToken # state[p].refreshToken
    /\ \E i \in Events(p, "return", "authenticateViaState") :
         /\ trace[p][i].arg.status = "failed"
         /\ trace[p][i].arg.error.statusCode = 401

(***************************************************************************)
(* C7: for a request that cannot be redirected, whatever the header, the   *)
(* state and the collaborators' answers, authenticate never calls          *)
(* samlPrepare and never returns a redirect; when no strategy settled the  *)
(* request the result is notHandled.                                       *)
(***************************************************************************)
C7_NoHandshakeWithoutRedirect ==
  \A p \in Procs :
    (Authenticating(p) /\ ~request[p].canRedirect)
    => /\ ~Called(p, "shield.samlPrepare")
       /\ pc[p] \notin {AwaitPrepare, AwaitRefreshPrepare}
       /\ Done(p) =>
            /\ result[p].status # "redirected"
            /\ (\A i \in DOMAIN trace[p] :
                  (trace[p][i].ev = "return"
                     /\ trace[p][i].fn # "authenticateViaHandshake")
                    => PassedOn(trace[p][i]))
                 => result[p] = NotHandled

\* A request that cannot be redirected reached the handshake strategy.
C7_Witness ==
  \E p \in Procs :
    /\ Authenticating(p) /\ Done(p) /\ ~request[p].canRedirect
    /\ Entered(p, "authenticateViaState")
    /\ Entered(p, "authenticateViaHandshake")
    /\ result[p] = NotHandled

(***************************************************************************)
(* C8: when authenticate starts a handshake and samlPrepare succeeds, the  *)
(* result is redirectTo the redirect URL samlPrepare returned, with a      *)
(* state update that is exactly {requestId: the id samlPrepare returned,   *)
(* nextURL: base path followed by the request's path}: no token of the     *)
(* previous state is in it.                                                *)
(***************************************************************************)
C8_HandshakeState ==
  \A p \in Procs : Authenticating(p) =>
    \A i \in Events(p, "answer", "shield.samlPrepare") :
      LET out == trace[p][i].arg
      IN  out.ok =>
            /\ Done(p)
            /\ result[p] =
                 RedirectTo(out.value.redirect,
                            ProviderState(Undef, Undef, out.value.id,
                              request[p].basePath \o request[p].url.path))

\* A handshake started for a session with expired tokens, under a base path.
C8_Witness ==
  \E p \in Procs :
    /\ Authenticating(p) /\ Done(p)
    /\ \E i \in Events(p, "answer", "shield.samlPrepare") : trace[p][i].arg.ok
    /\ state[p] # Null /\ ~Falsy(state[p].accessToken)
    /\ ~Falsy(state[p].refreshToken)
    /\ request[p].basePath # ""
    /\ result[p].status = "redirected"

(***************************************************************************)
(* C9, as claimed: for all states missing either requestId or nextURL (but *)
(* not both), login returns failed(bad-request).                           *)
(***************************************************************************)
C9_AsClaimed ==
  \A p \in Procs :
    (LoggingIn(p) /\ Done(p) /\ state[p] # Null /\ (Falsy(state[p].requestId) # Falsy(state[p].nextURL)))
    => IsBadRequest(result[p])

(***************************************************************************)
(* C9, amended: for all states that hold no access token and miss either   *)
(* requestId or nextURL (but not both), login returns failed(bad-request)  *)
(* at once, without calling samlAuthenticate.                              *)
(***************************************************************************)
C9_MalformedState ==
  \A p \in Procs :
    (LoggingIn(p) /\ state[p] # Null /\ Falsy(state[p].accessToken)
       /\ (Falsy(state[p].requestId) # Falsy(state[p].nextURL)))
    => /\ Done(p)
       /\ IsBadRequest(result[p])
       /\ result[p].state = Null
       /\ \A i \in DOMAIN trace[p] : trace[p][i].ev # "call"

\* A login with a state that has a requestId but no nextURL.
C9_Witness ==
  \E p \in Procs :
    /\ LoggingIn(p) /\ Done(p) /\ state[p] # Null
    /\ Falsy(state[p].accessToken)
    /\ ~Falsy(state[p].requestId) /\ Falsy(state[p].nextURL)
    /\ IsBadRequest(result[p])

\* samlAuthenticate has answered with success in flow p.
ExchangeSucceeded(p) ==
  \E i \in Events(p, "answer", "shield.samlAuthenticate") : trace[p][i].arg.ok

(***************************************************************************)
(* C10, as claimed: for all successful assertion exchanges, the redirect   *)
(* target returned by login equals the nextURL of the supplied state if    *)
(* present, else the default root path.                                    *)
(***************************************************************************)
C10_AsClaimed ==
  \A p \in Procs :
    (LoggingIn(p) /\ Done(p) /\ ExchangeSucceeded(p)
       /\ result[p].status = "redirected")
    => result[p].redirectURL =
         IF state[p] # Null /\ ~Falsy(state[p].nextURL) THEN state[p].nextURL
         ELSE request[p].basePath \o "/"

(***************************************************************************)
(* C10, amended: for all successful assertion exchanges of a login without *)
(* a usable session (no state, or a state without access token), login     *)
(* returns a redirect whose target equals the nextURL of the supplied      *)
(* state if present, else the default root path (base path followed by     *)
(* '/'); in a login with an existing valid session the exchange ignores    *)
(* the supplied state, and a redirect login returns goes to the default    *)
(* root path or to the overwritten-session page.                           *)
(***************************************************************************)
C10_RedirectTarget ==
  \A p \in Procs : (LoggingIn(p) /\ ExchangeSucceeded(p)) =>
    IF state[p] = Null \/ Falsy(state[p].accessToken)
    THEN /\ Done(p)
         /\ result[p].status = "redirected"
         /\ result[p].redirectURL =
              IF state[p] # Null /\ ~Falsy(state[p].nextURL)
              THEN state[p].nextURL
              ELSE request[p].basePath \o "/"
    ELSE (Done(p) /\ result[p].status = "redirected") =>
           result[p].redirectURL \in
             {request[p].basePath \o "/",
              request[p].basePath \o "/overwritten_session"}

\* A handshake completed: login redirected to the state's nextURL.
C10_Witness ==
  \E p \in Procs :
    /\ LoggingIn(p) /\ Done(p) /\ ExchangeSucceeded(p)
    /\ state[p] # Null /\ Falsy(state[p].accessToken)
    /\ ~Falsy(state[p].nextURL)
    /\ result[p].status = "redirected"
    /\ result[p].redirectURL = state[p].nextURL
    /\ result[p].redirectURL # request[p].basePath \o "/"

\* The answers flow p got from collaborator fn, in order.
AnswersOf(p, fn) ==
  SelectSeq(trace[p], LAMBDA e : e.ev = "answer" /\ e.fn = fn)

(***************************************************************************)
(* C11: in every login, samlAuthenticate is called with the assertion as   *)
(* content and with ids = [requestId] exactly when the supplied state      *)
(* holds requestId and nextURL and no access token (the login completes a  *)
(* handshake this system started), and with ids = [] otherwise; when login *)
(* reconciles a new assertion against an existing valid session, ids is    *)
(* empty even if the existing state still holds a requestId.               *)
(***************************************************************************)
C11_CorrelationIds ==
  \A p \in Procs : LoggingIn(p) =>
    \A i \in Events(p, "call", "shield.samlAuthenticate") :
      /\ trace[p][i].arg.content = attempt[p].samlResponse
      /\ trace[p][i].arg.ids =
           IF /\ state[p] # Null
              /\ Falsy(state[p].accessToken)
              /\ ~Falsy(state[p].requestId) /\ ~Falsy(state[p].nextURL)
           THEN <<state[p].requestId>> ELSE <<>>
      /\ Entered(p, "loginWithNewSAMLResponse") => trace[p][i].arg.ids = <<>>

\* A valid session whose state still holds a handshake pair presented a new
\* assertion, and the exchange was made without the old correlation id.
C11_Witness ==
  \E p \in Procs :
    /\ LoggingIn(p) /\ Entered(p, "loginWithNewSAMLResponse")
    /\ ~Falsy(state[p].requestId) /\ ~Falsy(state[p].nextURL)
    /\ \E i \in Events(p, "call", "shield.samlAuthenticate") :
         trace[p][i].arg.ids = <<>>

\* Login p had a valid session, and the exchange, the lookup of the new user
\* and the invalidation of the old session all succeeded.
Reconciled(p) ==
  /\ LoggingIn(p) /\ Entered(p, "loginWithNewSAMLResponse")
  /\ Len(AnswersOf(p, "tokens.invalidate")) = 1
  /\ AnswersOf(p, "tokens.invalidate")[1].arg.ok

\* The user of the existing session and the user of the new tokens: the
\* first and the second answer of getUser in a reconciling login.
OldUser(p) == AnswersOf(p, "getUser")[1].arg.value
NewUser(p) == AnswersOf(p, "getUser")[2].arg.value

\* The token pair the exchange of login p returned, as a state.
ExchangedState(p) ==
  LET tokens == AnswersOf(p, "shield.samlAuthenticate")[1].arg.value
  IN  ProviderState(tokens.access_token, tokens.refresh_token, Undef, Undef)

(***************************************************************************)
(* C12: when login is called with a valid existing session and a new       *)
(* assertion, and the exchange, the lookup of the new user and the         *)
(* invalidation of the old session all succeed: if the two users differ in *)
(* username or in authentication realm name, the result is redirectTo base *)
(* path + '/overwritten_session' with the new token pair as state; if both *)
(* match, the result is the plain exchange result, redirectTo base path +  *)
(* '/' with the new token pair as state.                                   *)
(***************************************************************************)
C12_Reconciliation ==
  \A p \in Procs : Reconciled(p) =>
    /\ Done(p)
    /\ result[p] =
         IF \/ OldUser(p).username # NewUser(p).username
            \/ OldUser(p).authentication_realm.name
                 # NewUser(p).authentication_realm.name
         THEN RedirectTo(request[p].basePath \o "/overwritten_session",
                         ExchangedState(p))
         ELSE RedirectTo(request[p].basePath \o "/", ExchangedState(p))

\* The new assertion is for a user of the same name in another realm.
C12_Witness ==
  \E p \in Procs :
    /\ Reconciled(p) /\ Done(p)
    /\ OldUser(p).username = NewUser(p).username
    /\ OldUser(p).authentication_realm.name
         # NewUser(p).authentication_realm.name
    /\ result[p].status = "redirected"
    /\ result[p].redirectURL = request[p].basePath \o "/overwritten_session"
    /\ ~Falsy(result[p].state.accessToken)
    /\ result[p].state.accessToken # state[p].accessToken

(***************************************************************************)
(* C13: in a reconciling login the old session's tokens are invalidated    *)
(* once the new user is known, before the users are compared: the call     *)
(* carries the existing state's token pair, and if it fails, login returns *)
(* failed with that error and without a state update, whether or not the   *)
(* old and the new user match.                                             *)
(***************************************************************************)
C13_InvalidationFirst ==
  \A p \in Procs : LoggingIn(p) =>
    /\ \A i \in Events(p, "call", "tokens.invalidate") :
         /\ trace[p][i].arg = [accessToken |-> state[p].accessToken,
                               refreshToken |-> state[p].refreshToken]
         /\ Len(AnswersOf(p, "getUser")) = 2
         /\ AnswersOf(p, "getUser")[2].arg.ok
    /\ \A i \in Events(p, "answer", "tokens.invalidate") :
         ~trace[p][i].arg.ok =>
           /\ Done(p)
           /\ result[p] = Failed(trace[p][i].arg.error)
           /\ result[p].state = Null

\* The invalidation failed in a login whose new user is not the old one.
C13_Witness ==
  \E p \in Procs :
    /\ LoggingIn(p) /\ Done(p)
    /\ Len(AnswersOf(p, "tokens.invalidate")) = 1
    /\ ~AnswersOf(p, "tokens.invalidate")[1].arg.ok
    /\ OldUser(p).username # NewUser(p).username
    /\ result[p].status = "failed"
    /\ result[p].error = AnswersOf(p, "tokens.invalidate")[1].arg.error

(***************************************************************************)
(* C14: a successful assertion exchange that returns no tokens is turned   *)
(* by login into a failed result, and login never returns a redirect whose *)
(* state update lacks the access or the refresh token, on the fresh-login  *)
(* path and on the existing-session path alike.  The code does this only   *)
(* on the existing-session path (there the lookup of the new user finds no *)
(* access token); loginWithSAMLResponse itself stores whatever the         *)
(* response holds, so a fresh login redirects with a token-less state.     *)
(***************************************************************************)
C14_TokenlessExchangeFails ==
  \A p \in Procs : (LoggingIn(p) /\ Done(p)) =>
    /\ (\E i \in Events(p, "answer", "shield.samlAuthenticate") :
          /\ trace[p][i].arg.ok
          /\ Falsy(trace[p][i].arg.value.access_token)
          /\ Falsy(trace[p][i].arg.value.refresh_token))
       => result[p].status = "failed"
    /\ (result[p].status = "redirected" /\ result[p].state # Null) =>
         /\ ~Falsy(result[p].state.accessToken)
         /\ ~Falsy(result[p].state.refreshToken)

LoggingOut(p) == op[p] = "logout"

(***************************************************************************)
(* C15: logout with no access token in the state (or no state) and no      *)
(* SAMLRequest query parameter returns notHandled at once and calls        *)
(* neither samlLogout nor samlInvalidate.                                  *)
(***************************************************************************)
C15_NothingToInvalidate ==
  \A p \in Procs :
    (LoggingOut(p) /\ (state[p] = Null \/ Falsy(state[p].accessToken))
       /\ Falsy(request[p].query.SAMLRequest))
    => /\ Done(p)
       /\ result[p] = DeauthNotHandled
       /\ ~Called(p, "shield.samlLogout")
       /\ ~Called(p, "shield.samlInvalidate")
       /\ trace[p] = <<>>

\* A logout whose state holds a refresh token but no access token.
C15_Witness ==
  \E p \in Procs :
    /\ LoggingOut(p) /\ Done(p)
    /\ state[p] # Null /\ Falsy(state[p].accessToken)
    /\ ~Falsy(state[p].refreshToken)
    /\ request[p].url.search # <<>>
    /\ result[p] = DeauthNotHandled

\* The answers of the single logout call of flow p, whichever path made it.
SingleLogoutAnswers(p) ==
  SelectSeq(trace[p], LAMBDA e :
    e.ev = "answer" /\ e.fn \in {"shield.samlLogout", "shield.samlInvalidate"})

(***************************************************************************)
(* C16: when the single-logout call made by logout succeeds, logout        *)
(* returns redirectTo exactly the redirect URL the backing store returned  *)
(* if that URL is non-null, and redirectTo the fixed path '/logged_out' if *)
(* it is null, on the user-initiated and on the IdP-initiated path.        *)
(***************************************************************************)
C16_LogoutRedirect ==
  \A p \in Procs : LoggingOut(p) =>
    \A i \in DOMAIN SingleLogoutAnswers(p) :
      LET out == SingleLogoutAnswers(p)[i].arg
      IN  out.ok =>
            /\ Done(p)
            /\ result[p].status = "redirected"
            /\ result[p].error = Null
            /\ result[p].redirectURL =
                 IF out.value.redirect # Undef THEN out.value.redirect
                 ELSE "/logged_out"

\* A user-initiated logout the identity provider takes over.
C16_Witness ==
  \E p \in Procs :
    /\ LoggingOut(p) /\ Done(p)
    /\ Called(p, "shield.samlLogout")
    /\ Len(SingleLogoutAnswers(p)) = 1
    /\ SingleLogoutAnswers(p)[1].arg.ok
    /\ SingleLogoutAnswers(p)[1].arg.value.redirect = IdPLogoutURL
    /\ result[p] = DeauthRedirectTo(IdPLogoutURL)

\* r is one of the four shapes of AuthenticationResult.
IsAuthenticationResult(r) ==
  \/ r = NotHandled
  \/ r.status = "succeeded" /\ r.user \in Users
       /\ r = Succeeded(r.user, r.authHeaders, r.state)
  \/ r.status = "redirected" /\ r.redirectURL # Undef
       /\ r = RedirectTo(r.redirectURL, r.state)
  \/ r.status = "failed" /\ r.error # Null /\ r = Failed(r.error)

\* r is one of the three shapes of DeauthenticationResult.
IsDeauthenticationResult(r) ==
  \/ r = DeauthNotHandled
  \/ r.status = "redirected" /\ r.redirectURL # Undef
       /\ r = DeauthRedirectTo(r.redirectURL)
  \/ r.status = "failed" /\ r.error # Null /\ r = DeauthFailed(r.error)

(***************************************************************************)
(* C17: no public method lets a collaborator failure escape: whatever      *)
(* calls to the backing store, the user lookup and the Token Service fail  *)
(* or succeed, login and authenticate return one of the tagged             *)
(* authentication results and logout one of the tagged deauthentication    *)
(* results; a failed result carries an error a collaborator threw in that  *)
(* call, unchanged, or one of the provider's own (400, internal guard);    *)
(* a failing samlLogout or samlInvalidate makes logout return failed with  *)
(* that same error.                                                        *)
(***************************************************************************)
C17_NoEscape ==
  \A p \in Procs :
    /\ Done(p) =>
         /\ (Authenticating(p) \/ LoggingIn(p)) =>
              /\ IsAuthenticationResult(result[p])
              /\ result[p].status = "failed" =>
                   \/ \E i \in DOMAIN trace[p] :
                        /\ trace[p][i].ev = "answer" /\ ~trace[p][i].arg.ok
                        /\ result[p].error = trace[p][i].arg.error
                   \/ result[p].error.statusCode \in {400, 0}
         /\ LoggingOut(p) => IsDeauthenticationResult(result[p])
    /\ LoggingOut(p) =>
         \A i \in DOMAIN SingleLogoutAnswers(p) :
           LET out == SingleLogoutAnswers(p)[i].arg
           IN  ~out.ok => Done(p) /\ result[p] = DeauthFailed(out.error)

\* An IdP-initiated logout whose samlInvalidate call failed.
C17_Witness ==
  \E p \in Procs :
    /\ LoggingOut(p) /\ Done(p)
    /\ Called(p, "shield.samlInvalidate")
    /\ Len(SingleLogoutAnswers(p)) = 1
    /\ ~SingleLogoutAnswers(p)[1].arg.ok
    /\ result[p] = DeauthFailed(Err503)

\* State st has requestId and nextURL both or neither, accessToken and
\* refreshToken both or neither, and not a handshake pair next to a token
\* pair.
WellFormedState(st) ==
  /\ Falsy(st.requestId) <=> Falsy(st.nextURL)
  /\ Falsy(st.accessToken) <=> Falsy(st.refreshToken)
  /\ ~(~Falsy(st.requestId) /\ ~Falsy(st.accessToken))

(***************************************************************************)
(* C18: over any sequence of login and authenticate calls in which each    *)
(* call receives no state or the state an earlier call returned, every     *)
(* state update the provider returns (and so every state the store holds)  *)
(* has requestId and nextURL both set or both absent, accessToken and      *)
(* refreshToken both set or both absent, and never a handshake pair        *)
(* together with a token pair.                                             *)
(***************************************************************************)
C18_StateShape ==
  /\ session # Null => WellFormedState(session)
  /\ \A p \in Procs :
       (Done(p) /\ (LoggingIn(p) \/ Authenticating(p))
          /\ shouldUpdateState(result[p]))
       => WellFormedState(result[p].state)

\* A login that completes the handshake an earlier authenticate started: the
\* stored handshake pair is replaced by a token pair.
C18_Witness ==
  \E p \in Procs :
    /\ LoggingIn(p) /\ Done(p)
    /\ session # Null /\ state[p] = session
    /\ ~Falsy(session.requestId) /\ ~Falsy(session.nextURL)
    /\ result[p].status = "redirected"
    /\ result[p].redirectURL = session.nextURL
    /\ ~Falsy(result[p].state.accessToken)
    /\ Falsy(result[p].state.requestId)

\* Flow p authenticates a request with a bearer Authorization header.
BearerRequest(p) ==
  /\ Authenticating(p)
  /\ HasScheme(request[p]) /\ SchemeWord(request[p]) = Bearer

(***************************************************************************)
(* C19: two calls of authenticate with the same valid bearer header (the   *)
(* backing store resolves it both times) return succeeded with the same    *)
(* user, whatever state each call was handed; no call with a bearer header *)
(* carries a state update or goes on to the state, refresh or handshake    *)
(* strategy: header-based authentication never changes the session state.  *)
(***************************************************************************)
C19_HeaderIdempotent ==
  /\ \A p \in Procs : BearerRequest(p) =>
       /\ ~Entered(p, "authenticateViaState")
       /\ ~Called(p, "tokens.refresh") /\ ~Called(p, "shield.samlPrepare")
       /\ Done(p) => ~shouldUpdateState(result[p])
  /\ \A p, q \in Procs :
       (/\ BearerRequest(p) /\ BearerRequest(q)
        /\ request[p].headers = request[q].headers
        /\ Done(p) /\ Done(q)
        /\ \A f \in {p, q} : /\ Len(AnswersOf(f, "getUser")) = 1
                              /\ AnswersOf(f, "getUser")[1].arg.ok)
       => /\ result[p].status = "succeeded"
          /\ result[q].status = "succeeded"
          /\ result[p].user = result[q].user
          /\ result[p].user = sessionUser

\* Two requests with the same bearer header, one carrying the stored session
\* and one carrying none, both authenticated.
C19_Witness ==
  \E p, q \in Procs :
    /\ p # q
    /\ BearerRequest(p) /\ BearerRequest(q)
    /\ request[p].headers = request[q].headers
    /\ state[p] = StoredSession /\ state[q] = Null
    /\ Done(p) /\ Done(q)
    /\ result[p].status = "succeeded" /\ result[q].status = "succeeded"
    /\ result[p].user = result[q].user

\* Flow p authenticates with the stored session and its refresh was answered.
Refreshed(p) ==
  /\ Authenticating(p) /\ state[p] = StoredSession
  /\ Len(AnswersOf(p, "tokens.refresh")) = 1
RefreshAnswer(p) == AnswersOf(p, "tokens.refresh")[1].arg

\* The refresh of flow p minted a new pair: it rotated the refresh token.
Rotated(p) ==
  Refreshed(p) /\ RefreshAnswer(p).ok /\ RefreshAnswer(p).value # Null

\* The refresh of flow p lost the race: the other flow rotated the token and
\* the Token Service answered this one with null.
LostRace(p) ==
  /\ Refreshed(p) /\ RefreshAnswer(p).ok /\ RefreshAnswer(p).value = Null
  /\ \E q \in Procs \ {p} : Rotated(q)

(***************************************************************************)
(* C20, as claimed: when two requests with the same session state (expired *)
(* access token) authenticate concurrently and the first refresh rotates   *)
(* the refresh token, the second refresh does not yield succeeded: for a   *)
(* redirectable request the result is a fresh handshake redirect; every    *)
(* state update either request returns is a well-formed token pair or      *)
(* handshake pair.                                                         *)
(***************************************************************************)
C20_AsClaimed ==
  \A p \in Procs :
    /\ (LostRace(p) /\ Done(p)) =>
         /\ result[p].status # "succeeded"
         /\ request[p].canRedirect => result[p].status = "redirected"
    /\ (Done(p) /\ Authenticating(p) /\ shouldUpdateState(result[p]))
       => WellFormedState(result[p].state)

(***************************************************************************)
(* C20, amended: at most one of the two concurrent refreshes of the same   *)
(* refresh token mints a pair; the request whose refresh is answered null  *)
(* never returns succeeded: if it can be redirected it calls samlPrepare   *)
(* and returns what the handshake comes to (the redirect to the identity   *)
(* provider with a fresh handshake pair when samlPrepare succeeds, failed  *)
(* with samlPrepare's error when it fails), and if it cannot it returns    *)
(* failed(bad-request); every state update either request returns is a     *)
(* well-formed token pair (the one its own refresh minted) or a            *)
(* well-formed handshake pair.                                             *)
(***************************************************************************)
C20_RefreshRace ==
  /\ \A p, q \in Procs : (p # q /\ Rotated(p)) => ~Rotated(q)
  /\ \A p \in Procs : LostRace(p) =>
       /\ Done(p) => result[p].status # "succeeded"
       /\ IF request[p].canRedirect
          THEN /\ Called(p, "shield.samlPrepare")
               /\ Done(p) =>
                    LET out == AnswersOf(p, "shield.samlPrepare")[1].arg
                    IN  result[p] =
                          IF out.ok
                          THEN RedirectTo(out.value.redirect,
                                 HandshakeState(out.value.id,
                                   request[p].basePath \o request[p].url.path))
                          ELSE Failed(out.error)
          ELSE /\ Done(p) /\ IsBadRequest(result[p])
               /\ ~Called(p, "shield.samlPrepare")
  /\ \A p \in Procs :
       (Done(p) /\ Authenticating(p) /\ shouldUpdateState(result[p]))
       => /\ WellFormedState(result[p].state)
          /\ ~Falsy(result[p].state.accessToken) =>
               /\ Rotated(p)
               /\ result[p].state =
                    TokenState(RefreshAnswer(p).value.accessToken,
                               RefreshAnswer(p).value.refreshToken)

\* One request refreshed the session; the other, redirectable, lost the
\* race and was sent to the identity provider.
C20_Witness ==
  \E p, q \in Procs :
    /\ p # q /\ Rotated(q) /\ LostRace(p)
    /\ Done(p) /\ Done(q)
    /\ result[q].status = "succeeded"
    /\ result[q].state # Null /\ result[q].state.refreshToken # RefreshToken(0)
    /\ request[p].canRedirect
    /\ result[p].status = "redirected"
    /\ ~Falsy(result[p].state.requestId)

(***************************************************************************)
(* C22: in a login with a valid existing session, tokens.invalidate is     *)
(* called only after samlAuthenticate has answered with success and the    *)
(* lookup of the user behind the new tokens has answered with a user; if   *)
(* the exchange fails or the lookup of the new user fails,                 *)
(* tokens.invalidate is never called and login returns failed with that    *)
(* error.                                                                  *)
(***************************************************************************)
C22_InvalidateAfterResolve ==
  \A p \in Procs : (LoggingIn(p) /\ Entered(p, "loginWithNewSAMLResponse")) =>
    /\ \A i \in Events(p, "call", "tokens.invalidate") :
         \E j \in Events(p, "answer", "shield.samlAuthenticate") :
           /\ trace[p][j].arg.ok
           /\ \E k \in Events(p, "answer", "getUser") :
                j < k /\ k < i /\ trace[p][k].arg.ok
    /\ \A j \in Events(p, "answer", "shield.samlAuthenticate") :
         ~trace[p][j].arg.ok =>
           /\ Done(p)
           /\ result[p] = Failed(trace[p][j].arg.error)
           /\ ~Called(p, "tokens.invalidate")
    /\ (Len(AnswersOf(p, "getUser")) = 2 /\ ~AnswersOf(p, "getUser")[2].arg.ok)
       => /\ Done(p)
          /\ result[p] = Failed(AnswersOf(p, "getUser")[2].arg.error)
          /\ ~Called(p, "tokens.invalidate")

\* The exchange succeeded, the lookup of the new user failed, and login
\* returned that failure with the old tokens untouched.
C22_Witness ==
  \E p \in Procs :
    /\ LoggingIn(p) /\ Entered(p, "loginWithNewSAMLResponse") /\ Done(p)
    /\ ExchangeSucceeded(p)
    /\ Len(AnswersOf(p, "getUser")) = 2
    /\ ~AnswersOf(p, "getUser")[2].arg.ok
    /\ result[p] = Failed(Err503)
    /\ ~Called(p, "tokens.invalidate")

(***************************************************************************)
(* C23: when login is given a state whose access token does not resolve to *)
(* a user (the lookup fails with any error, an expired token included),    *)
(* login returns failed with that error as it is: samlAuthenticate is not  *)
(* called, tokens.refresh is not called, samlPrepare is not called and the *)
(* result carries no state update.                                         *)
(***************************************************************************)
C23_FailedSessionEndsLogin ==
  \A p \in Procs :
    (/\ LoggingIn(p)
     /\ Len(AnswersOf(p, "getUser")) >= 1
     /\ ~AnswersOf(p, "getUser")[1].arg.ok)
    => /\ Done(p)
       /\ result[p] = Failed(AnswersOf(p, "getUser")[1].arg.error)
       /\ ~shouldUpdateState(result[p])
       /\ ~Called(p, "shield.samlAuthenticate")
       /\ ~Called(p, "tokens.refresh")
       /\ ~Called(p, "shield.samlPrepare")
       /\ ~Called(p, "tokens.invalidate")
       /\ Len(AnswersOf(p, "getUser")) = 1

\* A login whose state holds an expired access token and a refresh token.
C23_Witness ==
  \E p \in Procs :
    /\ LoggingIn(p) /\ Done(p)
    /\ Len(AnswersOf(p, "getUser")) = 1
    /\ ~AnswersOf(p, "getUser")[1].arg.ok
    /\ ~Falsy(state[p].refreshToken)
    /\ attempt[p].samlResponse # ""
    /\ result[p] = Failed(Err401)

(***************************************************************************)
(* C24: every logout that is handled (does not return notHandled) makes    *)
(* exactly one backing-store call, and no logout makes more than one: the  *)
(* call is samlInvalidate, with the query string of the request, when the  *)
(* request carries a SAMLRequest query parameter (also when the state      *)
(* holds a token pair, which is then sent nowhere), and else samlLogout    *)
(* with the access and the refresh token of the supplied state; the two    *)
(* are never both called.                                                  *)
(***************************************************************************)
C24_OneLogoutCall ==
  \A p \in Procs : LoggingOut(p) =>
    LET calls == {i \in DOMAIN trace[p] : trace[p][i].ev = "call"}
    IN  /\ Cardinality(calls) <= 1
        /\ (Done(p) /\ result[p] # DeauthNotHandled) => Cardinality(calls) = 1
        /\ ~(Called(p, "shield.samlInvalidate") /\ Called(p, "shield.samlLogout"))
        /\ \A i \in calls :
             IF ~Falsy(request[p].query.SAMLRequest)
             THEN /\ trace[p][i].fn = "shield.samlInvalidate"
                  /\ trace[p][i].arg.queryString = queryString(request[p])
             ELSE /\ trace[p][i].fn = "shield.samlLogout"
                  /\ trace[p][i].arg = [token |-> state[p].accessToken,
                                        refresh_token |-> state[p].refreshToken]

\* An IdP-initiated logout of a browser whose state holds a token pair.
C24_Witness ==
  \E p \in Procs :
    /\ LoggingOut(p) /\ Done(p)
    /\ ~Falsy(request[p].query.SAMLRequest)
    /\ state[p] # Null /\ ~Falsy(state[p].accessToken)
    /\ ~Falsy(state[p].refreshToken)
    /\ Called(p, "shield.samlInvalidate") /\ ~Called(p, "shield.samlLogout")
    /\ Cardinality({i \in DOMAIN trace[p] : trace[p][i].ev = "call"}) = 1
    /\ result[p].status = "redirected"

(***************************************************************************)
(* C25: no operation is retried: within one call of login, authenticate or *)
(* logout each of samlPrepare, samlAuthenticate, samlLogout,               *)
(* samlInvalidate, tokens.refresh and tokens.invalidate is called at most  *)
(* once, and after one of them has failed the call makes no further call   *)
(* at all.                                                                 *)
(***************************************************************************)
C25_NoRetry ==
  LET operations ==
        {"shield.samlPrepare", "shield.samlAuthenticate", "shield.samlLogout",
         "shield.samlInvalidate", "tokens.refresh", "tokens.invalidate"}
  IN  \A p \in Procs : \A fn \in operations :
        /\ Cardinality(Events(p, "call", fn)) <= 1
        /\ \A i \in Events(p, "answer", fn) :
             ~trace[p][i].arg.ok =>
               /\ Done(p)
               /\ \A j \in DOMAIN trace[p] : trace[p][j].ev = "call" => j < i

\* An authenticate whose only samlPrepare call failed.
C25_Witness ==
  \E p \in Procs :
    /\ Authenticating(p) /\ Done(p)
    /\ Cardinality(Events(p, "call", "shield.samlPrepare")) = 1
    /\ Len(AnswersOf(p, "shield.samlPrepare")) = 1
    /\ ~AnswersOf(p, "shield.samlPrepare")[1].arg.ok
    /\ result[p] = Failed(Err503)

C28_FailedLookupAfterRefresh ==
  /\ [](\A p \in Procs :
          (/\ Authenticating(p)
           /\ Len(AnswersOf(p, "tokens.refresh")) = 1
           /\ AnswersOf(p, "tokens.refresh")[1].arg.ok
           /\ AnswersOf(p, "tokens.refresh")[1].arg.value # Null
           /\ Len(AnswersOf(p, "getUser")) = 2
           /\ ~AnswersOf(p, "getUser")[2].arg.ok)
          => /\ Done(p)
             /\ result[p] = Failed(AnswersOf(p, "getUser")[2].arg.error)
             /\ ~shouldUpdateState(result[p]))
  /\ [][\A p \in Procs :
          (/\ Authenticating(p)
           /\ Len(AnswersOf(p, "tokens.refresh")) = 1
           /\ AnswersOf(p, "tokens.refresh")[1].arg.ok
           /\ AnswersOf(p, "tokens.refresh")[1].arg.value # Null
           /\ Len(AnswersOf(p, "getUser")) = 2
           /\ ~AnswersOf(p, "getUser")[2].arg.ok
           /\ pc'[p] = "idle")
          => session' = session]_vars

\* The stored session was refreshed to another pair, the lookup with the new
\* access token failed, and the session still holds the old pair.
C28_Witness ==
  \E p \in Procs :
    /\ Authenticating(p) /\ Done(p)
    /\ Len(AnswersOf(p, "tokens.refresh")) = 1
    /\ AnswersOf(p, "tokens.refresh")[1].arg.ok
    /\ AnswersOf(p, "tokens.refresh")[1].arg.value # Null
    /\ Len(AnswersOf(p, "getUser")) = 2
    /\ ~AnswersOf(p, "getUser")[2].arg.ok
    /\ session # Null /\ state[p] = session
    /\ AnswersOf(p, "tokens.refresh")[1].arg.value.accessToken
         # session.accessToken
    /\ result[p] = Failed(Err503)

(***************************************************************************)
(* C26: the handshake round trip.  After authenticate has returned a       *)
(* handshake state for a redirectable request for path P, a login called   *)
(* with that state sends samlAuthenticate exactly the correlation id that  *)
(* samlPrepare returned, and when the backing store accepts the assertion  *)
(* it redirects to base path + P and returns as state the token pair and   *)
(* nothing else; an authenticate that is then called with that state and   *)
(* whose access token resolves to a user returns succeeded with that user  *)
(* and auth headers built from that access token.                          *)
(***************************************************************************)
C26_HandshakeRoundTrip ==
  \A p \in Procs :
    /\ (/\ LoggingIn(p) /\ state[p] # Null /\ state[p] = session
        /\ lineage.prepared # Null /\ lineage.exchanged = Null)
       => /\ session = HandshakeState(lineage.prepared.id,
                         lineage.prepared.basePath \o lineage.prepared.path)
          /\ \A i \in Events(p, "call", "shield.samlAuthenticate") :
               trace[p][i].arg.ids = <<lineage.prepared.id>>
          /\ \A i \in Events(p, "answer", "shield.samlAuthenticate") :
               LET out == trace[p][i].arg
               IN  out.ok =>
                     /\ Done(p)
                     /\ result[p] =
                          RedirectTo(
                            lineage.prepared.basePath \o lineage.prepared.path,
                            ProviderState(out.value.access_token,
                                          out.value.refresh_token, Undef, Undef))
    /\ (/\ Authenticating(p) /\ state[p] # Null /\ state[p] = session
        /\ lineage.exchanged # Null
        /\ \E i \in Events(p, "return", "authenticateViaState") :
             trace[p][i].arg.status = "succeeded")
       => /\ session = ProviderState(lineage.exchanged.access_token,
                                     lineage.exchanged.refresh_token,
                                     Undef, Undef)
          /\ Done(p)
          /\ result[p] =
               Succeeded(AnswersOf(p, "getUser")[1].arg.value,
                         AuthHeaders(lineage.exchanged.access_token), Null)

\* The whole round trip: the session was started by a handshake for the
\* canvas application, completed by a login, and now authenticates a request.
C26_Witness ==
  \E p \in Procs :
    /\ Authenticating(p) /\ Done(p)
    /\ state[p] # Null /\ state[p] = session
    /\ lineage.exchanged # Null
    /\ lineage.prepared.path = "/app/canvas"
    /\ lineage.prepared.basePath = "/kbn"
    /\ result[p].status = "succeeded"
    /\ result[p].authHeaders = AuthHeaders(lineage.exchanged.access_token)

====
